---- MODULE Spec2Model ----
(***************************************************************************)
(* A model of the compactor crate: resolution-tagged times, the retention  *)
(* policy, and the monotonic aggregating buffer (Compactor).               *)
(*                                                                         *)
(* Representation:                                                         *)
(*  - a Resolution is its index in the enum (Day = 0 ... Millisecond = 18), *)
(*    so the derived Ord is the integer order (smaller = coarser);         *)
(*  - a Time is the u32 word, written as the set of positions of its 1     *)
(*    bits (bit 31 is the most significant); 2^31 does not fit a model     *)
(*    integer, the set of bit positions does;                              *)
(*  - a Date is the number of its day, so that the derived lexicographic   *)
(*    order and the calendar's "date - n days" are those of the integers;  *)
(*  - a payload is a Vec, a sequence, merged by concatenation.             *)
(***************************************************************************)
EXTENDS Integers, Sequences, FiniteSets, TLC

(* ---------------------------------------------------------------------- *)
(* Bounds of the model                                                     *)
(* ---------------------------------------------------------------------- *)

\* number of samples a run may push successfully
MaxPushes == 4
\* dates are the days 1..MaxDate
MaxDate == 4
\* at most this many keep_for_days calls on a builder
MaxRules == 3
\* the num_days given to keep_for_days are at most MaxDays
MaxDays == 3

Dates == 1..MaxDate

(* ---------------------------------------------------------------------- *)
(* Resolution (resolution.rs)                                              *)
(* ---------------------------------------------------------------------- *)

Day == 0
AmPm == 1
TimeOfDay == 2
ThreeHour == 3
Hour == 4
ThirtyMinute == 5
FifteenMinute == 6
FiveMinute == 7
Minute == 8
ThirtySecond == 9
FifteenSecond == 10
FiveSecond == 11
Second == 12
FiveHundredMilli == 13
HundredMilli == 14
FiftyMilli == 15
TenMilli == 16
FiveMilli == 17
Millisecond == 18

Resolution == Day..Millisecond

\* Resolution::subdivision, indexed by resolution + 1
subdivision_table == <<0, 2, 2, 2, 3, 2, 2, 3, 5, 2, 2, 3, 5, 2, 5, 2, 5, 2, 5>>

subdivision(res) == subdivision_table[res + 1]

\* Resolution::n_bits, indexed by resolution + 1
n_bits_table == <<0, 1, 1, 1, 2, 1, 1, 2, 3, 1, 1, 2, 3, 1, 3, 1, 3, 1, 3>>

n_bits(res) == n_bits_table[res + 1]

\* Resolution::trailing_zeros, indexed by resolution + 1
trailing_zeros_table == <<31, 30, 29, 28, 26, 25, 24, 22, 19, 18, 17, 15, 12, 11, 8, 7, 4, 3, 0>>

trailing_zeros(res) == trailing_zeros_table[res + 1]

\* Resolution::from_trailing_zeros, indexed by the count + 1; the match
\* panics on the counts that are no resolution's, which is -1 here
from_trailing_zeros_table ==
    <<Millisecond, -1, -1, FiveMilli, TenMilli, -1, -1, FiftyMilli,
      HundredMilli, -1, -1, FiveHundredMilli, Second, -1, -1, FiveSecond,
      -1, FifteenSecond, ThirtySecond, Minute, -1, -1, FiveMinute, -1,
      FifteenMinute, ThirtyMinute, Hour, -1, ThreeHour, TimeOfDay, AmPm, Day>>

from_trailing_zeros(x) == from_trailing_zeros_table[x + 1]

\* the widths gone wrong: the sub-second ones in the unit of the others
width_in_seconds_table ==
    <<86400000, 43200000, 21600000, 10800000, 3600000, 1800000, 900000,
      300000, 60000, 30000, 15000, 5000, 1000, 500000, 100000, 50000, 10000,
      5000, 1000>>

width_in_seconds(res) == width_in_seconds_table[res + 1]

\* Resolution::width in milliseconds, indexed by resolution + 1
width_table ==
    <<86400000, 43200000, 21600000, 10800000, 3600000, 1800000, 900000,
      300000, 60000, 30000, 15000, 5000, 1000, 500, 100, 50, 10, 5, 1>>

width(res) == width_table[res + 1]

\* Option<Resolution>::None
NoResolution == -2

\* Resolution::coarser
coarser(res) == IF res - 1 < Day THEN NoResolution ELSE res - 1

\* Resolution::finer
finer(res) == IF res + 1 > Millisecond THEN NoResolution ELSE res + 1

\* the range gone wrong: skip(to), so that `to` itself is yielded last
range_inclusive(from, to) ==
    LET n == IF from >= to THEN from - to + 1 ELSE 0
    IN [i \in 1..n |-> from - i + 1]

\* Resolution::range(from, to): variants().skip(to + 1)
\* .take(from.saturating_sub(to)).rev(), the resolutions from `from` up to
\* the one below `to`, finest first
range(from, to) ==
    LET n == IF from >= to THEN from - to ELSE 0
    IN [i \in 1..n |-> from - i + 1]

\* the loop of div over range(rhs, self)[i..], ret being the product so
\* far
RECURSIVE div_loop(_, _, _)
div_loop(ress, i, ret) ==
    IF i > Len(ress) THEN ret
    ELSE div_loop(ress, i + 1, ret * subdivision(ress[i]))

\* impl Div for Resolution: self / rhs
div(self, rhs) == div_loop(range(rhs, self), 1, 1)

(* ---------------------------------------------------------------------- *)
(* u32 words as sets of bit positions                                      *)
(* ---------------------------------------------------------------------- *)

Bits == 0..31

SetMax(S) == CHOOSE m \in S : \A k \in S : k <= m

SetMin(S) == CHOOSE m \in S : \A k \in S : m <= k

\* u32::trailing_zeros of a non-zero word
word_trailing_zeros(w) == SetMin(w)

\* Ord::cmp of two u32 words: decided by the highest bit they differ in
word_cmp(a, b) ==
    IF a = b THEN "Equal"
    ELSE IF SetMax((a \ b) \cup (b \ a)) \in b THEN "Less"
    ELSE "Greater"

\* (v as u32) << shift for a small number v: the 1 bits of v, moved up,
\* those moved past bit 31 dropped
shl(v, shift) ==
    {i + shift : i \in {j \in 0..15 : j + shift <= 31 /\ (v \div (2 ^ j)) % 2 = 1}}

\* a variant that sets the marker and clears nothing
mark_only(w, z) == w \cup {z}

\* x &= u32::MAX << z; x |= 1 << z
mask_and_mark(w, z) == {b \in w : b >= z} \cup {z}

(* ---------------------------------------------------------------------- *)
(* Time (datetime/time.rs), the time that CompactedData stores and that    *)
(* push clamps and compares                                                *)
(* ---------------------------------------------------------------------- *)

\* Time::resolution
resolution(t) == from_trailing_zeros(word_trailing_zeros(t))

\* a variant that masks and marks whatever the current resolution is
reduce_to_unguarded(t, res) == mask_and_mark(t, trailing_zeros(res))

\* a variant with the comparison the other way round: it has an effect
\* only if res is finer than the current resolution
reduce_to_inverted(t, res) ==
    IF res <= resolution(t) THEN t
    ELSE mask_and_mark(t, trailing_zeros(res))

\* Time::reduce_to: no effect if res is not coarser than the current one
reduce_to(t, res) ==
    IF res >= resolution(t) THEN t
    ELSE mask_and_mark(t, trailing_zeros(res))

\* Time::from_bits
from_bits(x, res) == mask_and_mark(x, trailing_zeros(res))

\* a variant that compares the words whatever the resolutions are
partial_cmp_total(a, b) == word_cmp(a, b)

\* impl PartialOrd for Time: "None" between different resolutions
partial_cmp(a, b) ==
    IF word_trailing_zeros(a) = word_trailing_zeros(b)
    THEN word_cmp(a, b)
    ELSE "None"

\* a variant that masks both words at the finer of the two resolutions
coarse_cmp_finer(a, b) ==
    LET wa == word_trailing_zeros(a)
        wb == word_trailing_zeros(b)
        zeroes == IF wa <= wb THEN wa ELSE wb
    IN word_cmp(mask_and_mark(a, zeroes), mask_and_mark(b, zeroes))

\* Time::coarse_cmp
coarse_cmp(a, b) ==
    LET wa == word_trailing_zeros(a)
        wb == word_trailing_zeros(b)
        zeroes == IF wa >= wb THEN wa ELSE wb
    IN word_cmp(mask_and_mark(a, zeroes), mask_and_mark(b, zeroes))

WHOLE_DAY == {31}

AM == {30}

PM == {31, 30}

\* set_res_bits(&mut bits, res, &mut x): the pair <<bits, x>> afterwards
set_res_bits(bx, res) ==
    LET bits == bx[1]
        x == bx[2]
        mask == {b \in Bits : /\ b >= trailing_zeros(res) + 1
                              /\ b <= trailing_zeros(res) + n_bits(res)}
    IN <<(bits \ mask) \cup shl(x % subdivision(res), trailing_zeros(res) + 1),
         x \div subdivision(res)>>

\* Option<Time>::None: the all-zero word, which no Time has
None == {}

\* a variant that leaves the AmPm slot as it is in self
try_with_hour_without_am_pm(t, x) ==
    IF x > 23 THEN None
    ELSE IF resolution(t) # Day THEN None
    ELSE LET s1 == set_res_bits(<<t, x>>, Hour)
             s2 == set_res_bits(s1, ThreeHour)
             s3 == set_res_bits(s2, TimeOfDay)
         IN from_bits(s3[1], Hour)

\* Time::try_with_hour
try_with_hour(t, x) ==
    IF x > 23 THEN None
    ELSE IF resolution(t) # Day THEN None
    ELSE LET s1 == set_res_bits(<<t, x>>, Hour)
             s2 == set_res_bits(s1, ThreeHour)
             s3 == set_res_bits(s2, TimeOfDay)
             s4 == set_res_bits(s3, AmPm)
         IN from_bits(s4[1], Hour)

\* Time::with_hour
with_hour(t, x) ==
    IF try_with_hour(t, x) = None THEN t ELSE try_with_hour(t, x)

\* Time::from_hour
from_hour(h) == with_hour(WHOLE_DAY, h)

\* Time::with_res
with_res(t, res) ==
    IF res > resolution(t) THEN None
    ELSE mask_and_mark(t, trailing_zeros(res))

\* Time::try_with_am_pm (x is u8::from(AmPm): AM = 0, PM = 1)
try_with_am_pm(t, x) ==
    IF resolution(t) # Day THEN None
    ELSE LET s1 == set_res_bits(<<t, x>>, AmPm)
         IN from_bits(s1[1], AmPm)

\* Time::try_with_time_of_day (x is u8::from(SixHour): Night = 0,
\* Morning = 1, Afternoon = 2, Evening = 3)
try_with_time_of_day(t, x) ==
    IF resolution(t) # Day THEN None
    ELSE LET s1 == set_res_bits(<<t, x>>, TimeOfDay)
             s2 == set_res_bits(s1, AmPm)
         IN from_bits(s2[1], TimeOfDay)

\* a variant that does not look at the resolution of the Time
try_with_minute_unchecked(t, x) ==
    IF x > 59 THEN None
    ELSE LET s1 == set_res_bits(<<t, x>>, Minute)
             s2 == set_res_bits(s1, FiveMinute)
             s3 == set_res_bits(s2, FifteenMinute)
             s4 == set_res_bits(s3, ThirtyMinute)
         IN from_bits(s4[1], Minute)

\* Time::try_with_minute
try_with_minute(t, x) ==
    IF x > 59 THEN None
    ELSE IF resolution(t) # Hour THEN None
    ELSE LET s1 == set_res_bits(<<t, x>>, Minute)
             s2 == set_res_bits(s1, FiveMinute)
             s3 == set_res_bits(s2, FifteenMinute)
             s4 == set_res_bits(s3, ThirtyMinute)
         IN from_bits(s4[1], Minute)

\* Time::try_with_second
try_with_second(t, x) ==
    IF x > 59 THEN None
    ELSE IF resolution(t) # Minute THEN None
    ELSE LET s1 == set_res_bits(<<t, x>>, Second)
             s2 == set_res_bits(s1, FiveSecond)
             s3 == set_res_bits(s2, FifteenSecond)
             s4 == set_res_bits(s3, ThirtySecond)
         IN from_bits(s4[1], Second)

\* a variant that leaves the bits of the two coarsest millisecond parts
\* unset
try_with_millis_low_parts(t, x) ==
    IF x > 999 THEN None
    ELSE IF resolution(t) # Second THEN None
    ELSE LET s1 == set_res_bits(<<t, x>>, Millisecond)
             s2 == set_res_bits(s1, FiveMilli)
             s3 == set_res_bits(s2, TenMilli)
             s4 == set_res_bits(s3, FiftyMilli)
         IN from_bits(s4[1], Millisecond)

\* Time::try_with_millis
try_with_millis(t, x) ==
    IF x > 999 THEN None
    ELSE IF resolution(t) # Second THEN None
    ELSE LET s1 == set_res_bits(<<t, x>>, Millisecond)
             s2 == set_res_bits(s1, FiveMilli)
             s3 == set_res_bits(s2, TenMilli)
             s4 == set_res_bits(s3, FiftyMilli)
             s5 == set_res_bits(s4, HundredMilli)
             s6 == set_res_bits(s5, FiveHundredMilli)
         IN from_bits(s6[1], Millisecond)

\* Option::unwrap_or
unwrap_or(opt, default) == IF opt = None THEN default ELSE opt

\* Time::with_am_pm
with_am_pm(t, x) == unwrap_or(try_with_am_pm(t, x), t)

\* Time::with_time_of_day
with_time_of_day(t, x) == unwrap_or(try_with_time_of_day(t, x), t)

\* Time::with_minute
with_minute(t, x) == unwrap_or(try_with_minute(t, x), t)

\* Time::with_second
with_second(t, x) == unwrap_or(try_with_second(t, x), t)

\* Time::with_millis
with_millis(t, x) == unwrap_or(try_with_millis(t, x), t)

\* bits >>= res.trailing_zeros() + 1; bits &= !(u32::MAX << n_bits):
\* the number held in the data bits of res
res_bits(t, res) ==
    LET lo == trailing_zeros(res) + 1
        field == {b \in t : b >= lo /\ b < lo + n_bits(res)}
        RECURSIVE value(_)
        value(S) == IF S = {} THEN 0
                    ELSE LET b == SetMin(S)
                         IN 2 ^ (b - lo) + value(S \ {b})
    IN value(field)

\* a variant that reads the data bits of res whatever the resolution of
\* the Time is
add_res_any(t, res, x) == x * subdivision(res) + res_bits(t, res)

\* Time::add_res(self, res, &mut x): x afterwards
add_res(t, res, x) ==
    IF res <= resolution(t)
    THEN x * subdivision(res) + res_bits(t, res)
    ELSE x * subdivision(res)

\* Time::millis (ret as u16)
millis(t) ==
    LET r1 == add_res(t, FiveHundredMilli, 0)
        r2 == add_res(t, HundredMilli, r1)
        r3 == add_res(t, FiftyMilli, r2)
        r4 == add_res(t, TenMilli, r3)
        r5 == add_res(t, FiveMilli, r4)
        r6 == add_res(t, Millisecond, r5)
    IN r6 % 65536

\* Time::second (ret as u8)
second(t) ==
    LET r1 == add_res(t, ThirtySecond, 0)
        r2 == add_res(t, FifteenSecond, r1)
        r3 == add_res(t, FiveSecond, r2)
        r4 == add_res(t, Second, r3)
    IN r4 % 256

\* Time::minute (ret as u8)
minute(t) ==
    LET r1 == add_res(t, ThirtyMinute, 0)
        r2 == add_res(t, FifteenMinute, r1)
        r3 == add_res(t, FiveMinute, r2)
        r4 == add_res(t, Minute, r3)
    IN r4 % 256

\* Time::hour (ret as u8)
hour(t) ==
    LET r1 == add_res(t, AmPm, 0)
        r2 == add_res(t, TimeOfDay, r1)
        r3 == add_res(t, ThreeHour, r2)
        r4 == add_res(t, Hour, r3)
    IN r4 % 256

\* Option<SixHour>::None and Option<AmPm>::None
NoPart == -1

\* Time::time_of_day, as the u8 of the SixHour
time_of_day(t) ==
    IF resolution(t) < AmPm THEN NoPart
    ELSE add_res(t, TimeOfDay, add_res(t, AmPm, 0)) % 256

\* Time::am_pm, as the u8 of the AmPm
am_pm(t) ==
    IF resolution(t) < AmPm THEN NoPart
    ELSE add_res(t, AmPm, 0) % 256

(* ---------------------------------------------------------------------- *)
(* Policy (policy.rs)                                                      *)
(* ---------------------------------------------------------------------- *)

\* derived Ord of the tuple (Days, Resolution): x.cmp(y) = Greater
rule_greater(x, y) == x[1] > y[1] \/ (x[1] = y[1] /\ x[2] > y[2])

\* raw_policy.sort_by(|x, y| x.cmp(y).reverse()); raw_policy.dedup():
\* the distinct rules, greatest first
RECURSIVE sort_dedup(_)
sort_dedup(S) ==
    IF S = {} THEN <<>>
    ELSE LET m == CHOOSE x \in S : \A y \in S : y = x \/ rule_greater(x, y)
         IN <<m>> \o sort_dedup(S \ {m})

\* the check on the wrong key: x.0, the days, instead of x.1
is_sorted_by_days(rules) ==
    \A i \in 1..(Len(rules) - 1) : rules[i][1] <= rules[i + 1][1]

\* iter().is_sorted_by_key(|x| x.1)
is_sorted_by_res(rules) ==
    \A i \in 1..(Len(rules) - 1) : rules[i][2] <= rules[i + 1][2]

\* the pairing gone wrong: each days with its own rule's resolution
zip_days_ress_unskipped(raw_policy) ==
    [i \in 1..Len(raw_policy) |-> <<raw_policy[i][1], raw_policy[i][2]>>]

\* the pairing gone wrong: skip(1) on the resolutions as well
zip_days_ress_both_skipped(raw_policy) ==
    [i \in 1..(Len(raw_policy) - 1) |-> <<raw_policy[i + 1][1], raw_policy[i + 1][2]>>]

\* days.zip(ress), days being the rules' days after skip(1): each
\* resolution with the days of the next rule
zip_days_ress(raw_policy) ==
    [i \in 1..(Len(raw_policy) - 1) |-> <<raw_policy[i + 1][1], raw_policy[i][2]>>]

\* build with the zero-days loop after the domination check
build_domination_first(raw) ==
    IF raw = <<>> THEN [err |-> "ZeroRetention"]
    ELSE LET raw_policy == sort_dedup({raw[i] : i \in 1..Len(raw)})
         IN IF ~is_sorted_by_res(raw_policy)
            THEN [err |-> "SomePoliciesDominateOthers"]
            ELSE IF \E i \in 1..Len(raw) : raw[i][1] = 0
            THEN [err |-> "PolicyAppliesForZeroDays"]
            ELSE [ok |->
                   [compaction_rules |-> zip_days_ress(raw_policy),
                    max_res |-> raw_policy[Len(raw_policy)][2],
                    max_retention |-> raw_policy[1][1]]]

\* build without the sort and dedup: the rules in call order
build_unsorted(raw) ==
    IF raw = <<>> THEN [err |-> "ZeroRetention"]
    ELSE IF \E i \in 1..Len(raw) : raw[i][1] = 0
    THEN [err |-> "PolicyAppliesForZeroDays"]
    ELSE LET raw_policy == raw
         IN IF ~is_sorted_by_res(raw_policy)
            THEN [err |-> "SomePoliciesDominateOthers"]
            ELSE [ok |->
                   [compaction_rules |-> zip_days_ress(raw_policy),
                    max_res |-> raw_policy[Len(raw_policy)][2],
                    max_retention |-> raw_policy[1][1]]]

\* build with max_res read from first() and max_retention from last()
build_ends_swapped(raw) ==
    IF raw = <<>> THEN [err |-> "ZeroRetention"]
    ELSE IF \E i \in 1..Len(raw) : raw[i][1] = 0
    THEN [err |-> "PolicyAppliesForZeroDays"]
    ELSE LET raw_policy == sort_dedup({raw[i] : i \in 1..Len(raw)})
         IN IF ~is_sorted_by_res(raw_policy)
            THEN [err |-> "SomePoliciesDominateOthers"]
            ELSE [ok |->
                   [compaction_rules |-> zip_days_ress(raw_policy),
                    max_res |-> raw_policy[1][2],
                    max_retention |-> raw_policy[Len(raw_policy)][1]]]

\* PolicyBuilder::build: raw is the Vec of (days, resolution) that
\* keep_for_days pushed; the result is [err |-> ...] or [ok |-> Policy]
build(raw) ==
    IF raw = <<>> THEN [err |-> "ZeroRetention"]
    ELSE IF \E i \in 1..Len(raw) : raw[i][1] = 0
    THEN [err |-> "PolicyAppliesForZeroDays"]
    ELSE LET raw_policy == sort_dedup({raw[i] : i \in 1..Len(raw)})
         IN IF ~is_sorted_by_res(raw_policy)
            THEN [err |-> "SomePoliciesDominateOthers"]
            ELSE [ok |->
                   [compaction_rules |-> zip_days_ress(raw_policy),
                    max_res |-> raw_policy[Len(raw_policy)][2],
                    max_retention |-> raw_policy[1][1]]]

(* ---------------------------------------------------------------------- *)
(* Aggregate (aggregate.rs)                                                *)
(* ---------------------------------------------------------------------- *)

\* the append gone wrong: other is dropped
merge_dropped(self, other) == self

\* impl Aggregate for Vec<T>: self.append(&mut other)
merge(self, other) == self \o other

\* the comparison turned round: the larger value is kept
min_merge_larger(self, other) == IF self < other THEN other ELSE self

\* impl Aggregate for Min<T>
min_merge(self, other) == IF self > other THEN other ELSE self

\* impl Aggregate for Max<T>
max_merge(self, other) == IF self < other THEN other ELSE self

\* impl Aggregate for First<T>: a no-op
first_merge(self, other) == self

\* impl Aggregate for Last<T>
last_merge(self, other) == other

\* impl From<T> for Candlestick<T>
candlestick_from(x) == [first |-> x, last |-> x, min |-> x, max |-> x]

\* impl Aggregate for Candlestick<T>
candlestick_merge(self, other) ==
    [first |-> first_merge(self.first, other.first),
     last |-> last_merge(self.last, other.last),
     min |-> min_merge(self.min, other.min),
     max |-> max_merge(self.max, other.max)]

\* Option<T>::None and Some(x), for a payload
NoPayload == <<>>

Some(x) == <<x>>

\* impl Aggregate for Option<T>, for T = Min
option_merge(self, other) ==
    IF self # NoPayload
    THEN IF other # NoPayload
         THEN Some(min_merge(self[1], other[1]))
         ELSE self
    ELSE other

(* ---------------------------------------------------------------------- *)
(* CompactedData (data.rs): a Vec of (Date, Time, T), here <<d, t, x>>     *)
(* ---------------------------------------------------------------------- *)

\* the position gone wrong: the day up_to itself is kept
discard_exclusive(xs, up_to) ==
    LET found == {i \in 1..Len(xs) : xs[i][1] >= up_to}
        remove == IF found = {} THEN Len(xs) ELSE SetMin(found) - 1
    IN SubSeq(xs, remove + 1, Len(xs))

\* the drain gone wrong: drain(..=remove), one entry too many
discard_one_more(xs, up_to) ==
    LET found == {i \in 1..Len(xs) : xs[i][1] > up_to}
        remove == IF found = {} THEN Len(xs) ELSE SetMin(found) - 1
    IN SubSeq(xs, remove + 2, Len(xs))

\* CompactedData::discard
discard(xs, up_to) ==
    LET found == {i \in 1..Len(xs) : xs[i][1] > up_to}
        remove == IF found = {} THEN Len(xs) ELSE SetMin(found) - 1
    IN SubSeq(xs, remove + 1, Len(xs))

\* the merge step gone wrong: every item is reduced and yielded by itself
with_max_res_unmerged(res, xs) ==
    [i \in 1..Len(xs) |-> <<xs[i][1], reduce_to(xs[i][2], res), xs[i][3]>>]

\* a variant that compares the time of the previous item with the time
\* as it was before it was reduced
RECURSIVE with_max_res_compared_unreduced(_, _)
with_max_res_compared_unreduced(res, xs) ==
    IF xs = <<>> THEN <<>>
    ELSE LET n == Len(xs)
             out == with_max_res_compared_unreduced(res, SubSeq(xs, 1, n - 1))
             date == xs[n][1]
             time == reduce_to(xs[n][2], res)
             x == xs[n][3]
         IN IF out # <<>> /\ out[Len(out)][1] = date /\ out[Len(out)][2] = xs[n][2]
            THEN [out EXCEPT ![Len(out)][3] = merge(@, x)]
            ELSE Append(out, <<date, time, x>>)

\* a variant that merges items of equal date and time without reducing
\* the times
RECURSIVE with_max_res_unreduced(_, _)
with_max_res_unreduced(res, xs) ==
    IF xs = <<>> THEN <<>>
    ELSE LET n == Len(xs)
             out == with_max_res_unreduced(res, SubSeq(xs, 1, n - 1))
             date == xs[n][1]
             time == xs[n][2]
             x == xs[n][3]
         IN IF out # <<>> /\ out[Len(out)][1] = date /\ out[Len(out)][2] = time
            THEN [out EXCEPT ![Len(out)][3] = merge(@, x)]
            ELSE Append(out, <<date, time, x>>)

\* with_max_res: reduce every time to res, merging each item into the
\* previous one when date and reduced time are equal
RECURSIVE with_max_res(_, _)
with_max_res(res, xs) ==
    IF xs = <<>> THEN <<>>
    ELSE LET n == Len(xs)
             out == with_max_res(res, SubSeq(xs, 1, n - 1))
             date == xs[n][1]
             time == reduce_to(xs[n][2], res)
             x == xs[n][3]
         IN IF out # <<>> /\ out[Len(out)][1] = date /\ out[Len(out)][2] = time
            THEN [out EXCEPT ![Len(out)][3] = merge(@, x)]
            ELSE Append(out, <<date, time, x>>)

\* the scan gone wrong: it stops at the day up_to instead of after it
compact_marked_exclusive(xs, up_to, res) ==
    LET stop == {i \in 1..Len(xs) : resolution(xs[i][2]) > res /\ xs[i][1] >= up_to}
        brk == IF stop = {} THEN Len(xs) + 1 ELSE SetMin(stop)
    IN {i \in 1..(brk - 1) : resolution(xs[i][2]) > res}

\* the scan at the head of CompactedData::compact: the indices it marks
\* (entries finer than res, up to the first such entry after up_to)
compact_marked(xs, up_to, res) ==
    LET stop == {i \in 1..Len(xs) : resolution(xs[i][2]) > res /\ xs[i][1] > up_to}
        brk == IF stop = {} THEN Len(xs) + 1 ELSE SetMin(stop)
    IN {i \in 1..(brk - 1) : resolution(xs[i][2]) > res}

\* a variant that splices out the buffer from the first marked entry to
\* its end
compact_whole_tail(xs, up_to, res) ==
    LET marked == compact_marked(xs, up_to, res)
    IN IF marked = {} THEN xs
       ELSE LET start == SetMin(marked)
                merged == with_max_res(res, SubSeq(xs, start, Len(xs)))
            IN SubSeq(xs, 1, start - 1) \o merged

\* CompactedData::compact, up to its sanity check
compact(xs, up_to, res) ==
    LET marked == compact_marked(xs, up_to, res)
    IN IF marked = {} THEN xs
       ELSE LET start == SetMin(marked)
                end == SetMax(marked)
                merged == with_max_res(res, SubSeq(xs, start, end))
            IN SubSeq(xs, 1, start - 1) \o merged \o SubSeq(xs, end + 1, Len(xs))

\* the sanity check that ends CompactedData::compact, on the buffer ys
\* that compact(xs, up_to, res) made (the early return, when the scan
\* marks nothing, does not reach it)
compact_sanity(xs, ys, up_to, res) ==
    \/ compact_marked(xs, up_to, res) = {}
    \/ \A i \in 1..Len(ys) : ys[i][1] <= up_to => resolution(ys[i][2]) <= res

\* the loop gone wrong: each up_to is counted back from the up_to of the
\* rule before instead of from date
RECURSIVE apply_rules_cumulative(_, _, _, _)
apply_rules_cumulative(xs, rules, date, i) ==
    IF i > Len(rules) THEN [data |-> xs, ok |-> TRUE]
    ELSE LET up_to == date - rules[i][1]
             res == rules[i][2]
             ys == compact(xs, up_to, res)
         IN IF compact_sanity(xs, ys, up_to, res)
            THEN apply_rules_cumulative(ys, rules, up_to, i + 1)
            ELSE [data |-> ys, ok |-> FALSE]

\* a variant that compacts up to date itself under every rule
RECURSIVE apply_rules_to_date(_, _, _, _)
apply_rules_to_date(xs, rules, date, i) ==
    IF i > Len(rules) THEN [data |-> xs, ok |-> TRUE]
    ELSE LET up_to == date
             res == rules[i][2]
             ys == compact(xs, up_to, res)
         IN IF compact_sanity(xs, ys, up_to, res)
            THEN apply_rules_to_date(ys, rules, date, i + 1)
            ELSE [data |-> ys, ok |-> FALSE]

\* the loop of CompactedData::apply_policy over compaction_rules[i..]:
\* [data, ok], ok = FALSE when a sanity check failed (the panic leaves the
\* buffer as that compaction made it)
RECURSIVE apply_rules(_, _, _, _)
apply_rules(xs, rules, date, i) ==
    IF i > Len(rules) THEN [data |-> xs, ok |-> TRUE]
    ELSE LET up_to == date - rules[i][1]
             res == rules[i][2]
             ys == compact(xs, up_to, res)
         IN IF compact_sanity(xs, ys, up_to, res)
            THEN apply_rules(ys, rules, date, i + 1)
            ELSE [data |-> ys, ok |-> FALSE]

\* the calls of compact that the loop of apply_policy makes on xs:
\* <<buffer before, up_to, res, buffer after>> of each, up to the first
\* whose sanity check fails
RECURSIVE compact_calls(_, _, _, _)
compact_calls(xs, rules, date, i) ==
    IF i > Len(rules) THEN <<>>
    ELSE LET up_to == date - rules[i][1]
             res == rules[i][2]
             ys == compact(xs, up_to, res)
         IN IF compact_sanity(xs, ys, up_to, res)
            THEN <<<<xs, up_to, res, ys>>>> \o compact_calls(ys, rules, date, i + 1)
            ELSE <<<<xs, up_to, res, ys>>>>

\* apply_policy gone wrong: the discard is left out
apply_policy_undiscarded(xs, pol, date) ==
    apply_rules(xs, pol.compaction_rules, date, 1)

\* a variant whose discard reaches date itself
apply_policy_discarded_to_date(xs, pol, date) ==
    apply_rules(discard(xs, date), pol.compaction_rules, date, 1)

\* CompactedData::apply_policy
apply_policy(xs, pol, date) ==
    apply_rules(discard(xs, date - pol.max_retention), pol.compaction_rules, date, 1)

(* ---------------------------------------------------------------------- *)
(* Compactor (compactor.rs)                                                *)
(* ---------------------------------------------------------------------- *)

\* derived Ord of Date: a.cmp(&b)
date_cmp(a, b) ==
    IF a < b THEN "Less" ELSE IF a = b THEN "Equal" ELSE "Greater"

\* the time check gone wrong: the sample is stored before the times are
\* compared, and stays when the push is refused
push_same_date_stored_first(xs, date, time, x) ==
    LET ord == partial_cmp(xs[Len(xs)][2], time)
    IN CASE ord = "None" ->
              [data |-> xs, result |-> "CompactedHead"]
         [] ord = "Less" ->
              [data |-> Append(xs, <<date, time, x>>), result |-> "Ok"]
         [] ord = "Equal" ->
              [data |-> [xs EXCEPT ![Len(xs)][3] = merge(@, x)], result |-> "Ok"]
         [] ord = "Greater" ->
              [data |-> Append(xs, <<date, time, x>>), result |-> "NonMonotonic"]

\* Compactor::push, "Check the time": the pushed date is the last entry's.
\* "CompactedHead" is the panic of expect("Compacted head").
push_same_date(xs, date, time, x) ==
    LET ord == partial_cmp(xs[Len(xs)][2], time)
    IN CASE ord = "None" ->
              [data |-> xs, result |-> "CompactedHead"]
         [] ord = "Less" ->
              [data |-> Append(xs, <<date, time, x>>), result |-> "Ok"]
         [] ord = "Equal" ->
              [data |-> [xs EXCEPT ![Len(xs)][3] = merge(@, x)], result |-> "Ok"]
         [] ord = "Greater" ->
              [data |-> xs, result |-> "NonMonotonic"]

\* the date check gone wrong: an earlier date is taken for the common case
push_date_unchecked(xs, pol, date, t, x) ==
    LET time == reduce_to(t, pol.max_res)
    IN IF xs = <<>>
       THEN [data |-> <<<<date, time, x>>>>, result |-> "Ok"]
       ELSE LET ord == date_cmp(xs[Len(xs)][1], date)
            IN CASE ord \in {"Equal", "Greater"} -> push_same_date(xs, date, time, x)
                 [] ord = "Less" ->
                      LET applied == apply_policy(Append(xs, <<date, time, x>>), pol, date)
                      IN [data |-> applied.data,
                          result |-> IF applied.ok THEN "Ok" ELSE "SanityCheck"]

\* push with the clamp to max_res forgotten
push_unclamped(xs, pol, date, t, x) ==
    LET time == t
    IN IF xs = <<>>
       THEN [data |-> <<<<date, time, x>>>>, result |-> "Ok"]
       ELSE LET ord == date_cmp(xs[Len(xs)][1], date)
            IN CASE ord = "Equal" -> push_same_date(xs, date, time, x)
                 [] ord = "Greater" -> [data |-> xs, result |-> "NonMonotonic"]
                 [] ord = "Less" ->
                      LET applied == apply_policy(Append(xs, <<date, time, x>>), pol, date)
                      IN [data |-> applied.data,
                          result |-> IF applied.ok THEN "Ok" ELSE "SanityCheck"]

\* a variant that stores the first item at the time it was given
push_first_unclamped(xs, pol, date, t, x) ==
    LET time == reduce_to(t, pol.max_res)
    IN IF xs = <<>>
       THEN [data |-> <<<<date, t, x>>>>, result |-> "Ok"]
       ELSE LET ord == date_cmp(xs[Len(xs)][1], date)
            IN CASE ord = "Equal" -> push_same_date(xs, date, time, x)
                 [] ord = "Greater" -> [data |-> xs, result |-> "NonMonotonic"]
                 [] ord = "Less" ->
                      LET applied == apply_policy(Append(xs, <<date, time, x>>), pol, date)
                      IN [data |-> applied.data,
                          result |-> IF applied.ok THEN "Ok" ELSE "SanityCheck"]

\* Compactor::push on the buffer xs under the policy pol: the buffer
\* afterwards and what the call returned.  "Ok" and "NonMonotonic" are
\* the two values of Result<(), PushError>; "SanityCheck" is the panic of
\* the assert in compact.
push(xs, pol, date, t, x) ==
    LET time == reduce_to(t, pol.max_res)
    IN IF xs = <<>>
       THEN [data |-> <<<<date, time, x>>>>, result |-> "Ok"]
       ELSE LET ord == date_cmp(xs[Len(xs)][1], date)
            IN CASE ord = "Equal" -> push_same_date(xs, date, time, x)
                 [] ord = "Greater" -> [data |-> xs, result |-> "NonMonotonic"]
                 [] ord = "Less" ->
                      LET applied == apply_policy(Append(xs, <<date, time, x>>), pol, date)
                      IN [data |-> applied.data,
                          result |-> IF applied.ok THEN "Ok" ELSE "SanityCheck"]

\* update_date gone wrong: it only evicts, the compactions are left out
update_date_discard_only(xs, pol, date) ==
    IF xs # <<>> /\ date > xs[Len(xs)][1]
    THEN [data |-> discard(xs, date - pol.max_retention), ok |-> TRUE]
    ELSE [data |-> xs, ok |-> TRUE]

\* Compactor::update_date: apply the policy when date is strictly after
\* the last entry's date
update_date(xs, pol, date) ==
    IF xs # <<>> /\ date > xs[Len(xs)][1]
    THEN apply_policy(xs, pol, date)
    ELSE [data |-> xs, ok |-> TRUE]

(* ---------------------------------------------------------------------- *)
(* The state machine: one Compactor and its caller                         *)
(* ---------------------------------------------------------------------- *)

\* the rule lists given to the builder (keep_for_days calls, in call order)
RuleLists ==
    { <<<<2, Day>>>>,
      <<<<1, AmPm>>, <<2, Day>>>>,
      <<<<2, AmPm>>, <<3, Day>>, <<1, Hour>>>>,
      <<<<1, Hour>>, <<3, Day>>>> }

\* the times a caller pushes: two hours, one in each half of the day, and
\* the afternoon as a whole (coarser than an Hour max_res)
Times == {from_hour(11), from_hour(13), PM}

\* no call has been made
NoCall == [fn |-> "none"]

VARIABLES
    rules,      \* PolicyBuilder.0, the rule list the policy was built from
    built,      \* what build() returned, or NotBuilt while the builder is
                \* still taking rules
    policy,     \* Compactor.policy
    data,       \* Compactor.data.0
    op,         \* the last call: "new", "push" or "update_date"
    arg_date,   \* the date passed to the last call
    arg_time,   \* the time passed to the last push
    result,     \* what the last call returned, or the panic that ended it
    count,      \* number of samples pushed with result Ok
    kept,       \* history: <<date, payload>> of the samples pushed with
                \* result Ok, in push order, less those whose date a
                \* discard has covered since they were pushed
    in_order,   \* history: every call so far was a push of a time at least
                \* as fine as max_res on a date not before the previous one
    latest,     \* history: the greatest date of the pushes with result Ok,
                \* 0 before the first
    time,       \* a Time value in the hands of a caller of the with_*
                \* setters
    parts,      \* history: the components the setters have put into time,
                \* <<hour, minute, second, millis>> or a prefix of it
    call        \* the last call of a function that leaves its receiver as
                \* it was: its name, arguments and return value

vars == <<rules, built, policy, data, op, arg_date, arg_time, result, count, kept,
          in_order, latest, time, parts, call>>

\* PolicyBuilder::build succeeded; impl From<Policy> for Compactor
Init ==
    /\ rules \in RuleLists
    /\ built = build(rules)
    /\ "ok" \in DOMAIN built
    /\ policy = built.ok
    /\ data = <<>>
    /\ op = "new"
    /\ arg_date = 0
    /\ arg_time = WHOLE_DAY
    /\ result = "Ok"
    /\ count = 0
    /\ kept = <<>>
    /\ in_order = TRUE
    /\ latest = 0
    /\ time = WHOLE_DAY
    /\ parts = <<>>
    /\ call = NoCall

\* what the history keeps once apply_policy(policy, date) has discarded
not_discarded(log, pol, date) ==
    SelectSeq(log, LAMBDA e : e[1] > date - pol.max_retention)

\* whether this push or update_date reaches apply_policy
applies_policy(xs, date) == xs # <<>> /\ xs[Len(xs)][1] < date

\* a call of push(date, t, x)
Push(date, t, x) ==
    LET r == push(data, policy, date, t, x)
        log == IF r.result = "Ok" THEN Append(kept, <<date, x>>) ELSE kept
    IN /\ count < MaxPushes
       /\ data' = r.data
       /\ result' = r.result
       /\ op' = "push"
       /\ arg_date' = date
       /\ arg_time' = t
       /\ count' = IF r.result = "Ok" THEN count + 1 ELSE count
       /\ kept' = IF applies_policy(data, date)
                  THEN not_discarded(log, policy, date)
                  ELSE log
       /\ in_order' = (in_order /\ resolution(t) >= policy.max_res /\ date >= arg_date)
       /\ latest' = IF r.result = "Ok" /\ date > latest THEN date ELSE latest
       /\ UNCHANGED <<rules, built, policy, time, parts, call>>

\* a call of update_date(date)
UpdateDate(date) ==
    LET r == update_date(data, policy, date)
    IN /\ data' = r.data
       /\ result' = IF r.ok THEN "Ok" ELSE "SanityCheck"
       /\ op' = "update_date"
       /\ arg_date' = date
       /\ kept' = IF applies_policy(data, date)
                  THEN not_discarded(kept, policy, date)
                  ELSE kept
       /\ in_order' = FALSE
       /\ UNCHANGED <<rules, built, policy, arg_time, count, latest, time, parts, call>>

\* samples carry their number in push order
Next ==
    \/ \E date \in Dates, t \in Times : Push(date, t, <<count + 1>>)
    \/ \E date \in Dates : UpdateDate(date)

Spec == Init /\ [][Next]_vars

(* ---------------------------------------------------------------------- *)
(* Properties of the buffer                                                *)
(* ---------------------------------------------------------------------- *)

Last(xs) == xs[Len(xs)]

Entries == {data[i] : i \in 1..Len(data)}

\* the payloads of a sequence of <<.., payload>> tuples, concatenated in
\* order; k is the position of the payload in a tuple
RECURSIVE Concat(_, _)
Concat(xs, k) ==
    IF xs = <<>> THEN <<>> ELSE xs[1][k] \o Concat(Tail(xs), k)

\* C1 (post-compaction invariant): after any push or update_date with date
\* today, for every rule (days, r) of the policy's compaction rules, every
\* stored entry whose date is <= today - days has a resolution <= r.
C1_PostCompaction ==
    op # "new" =>
        \A i \in 1..Len(policy.compaction_rules) : \A e \in Entries :
            e[1] <= arg_date - policy.compaction_rules[i][1]
                => resolution(e[2]) <= policy.compaction_rules[i][2]

\* a push has compacted: an entry old enough for a rule holds, at the
\* rule's resolution, two samples that were pushed at a finer one
C1_Witness ==
    /\ op = "push" /\ result = "Ok" /\ in_order
    /\ \E i \in 1..Len(policy.compaction_rules) : \E e \in Entries :
          /\ e[1] <= arg_date - policy.compaction_rules[i][1]
          /\ resolution(e[2]) = policy.compaction_rules[i][2]
          /\ resolution(e[2]) < policy.max_res
          /\ Len(e[3]) >= 2

\* C2 (retention invariant): after any push or update_date on today, no
\* stored entry has date <= today - max_retention.
C2_Retention ==
    op # "new" => \A e \in Entries : e[1] > arg_date - policy.max_retention

\* a push has discarded: samples were pushed that the buffer no longer
\* covers, and entries remain
C2_Witness ==
    /\ op = "push" /\ result = "Ok"
    /\ Len(kept) < count
    /\ Len(data) >= 2

\* C3 (monotonic iteration): any two consecutive entries have strictly
\* increasing dates, or the same date and strictly increasing times under
\* coarse_cmp; so no two entries share a (date, time) key.
C3_MonotonicIteration ==
    \A i \in 1..(Len(data) - 1) :
        \/ data[i][1] < data[i + 1][1]
        \/ /\ data[i][1] = data[i + 1][1]
           /\ coarse_cmp(data[i][2], data[i + 1][2]) = "Less"

\* the buffer holds a merged entry followed by two entries of one date
C3_Witness ==
    \E i \in 1..(Len(data) - 2) :
        /\ Len(data[i][3]) >= 2
        /\ data[i + 1][1] = data[i + 2][1]

\* C4 (merge coverage): the payloads of the stored entries, concatenated
\* in iteration order, are the payloads of the samples pushed with result
\* Ok whose date has not been discarded, concatenated in push order.
C4_MergeCoverage == Concat(data, 3) = Concat(kept, 2)

\* samples have been discarded and others merged by a compaction
C4_Witness ==
    /\ 0 < Len(kept) /\ Len(kept) < count
    /\ \E e \in Entries : Len(e[3]) >= 2 /\ resolution(e[2]) < policy.max_res

\* C5 (as claimed): push only ever returns Ok or NonMonotonic; the
\* "Compacted head" panic is unreachable.
C5_CompactedHeadUnreachable ==
    op = "push" => result \in {"Ok", "NonMonotonic"}

\* C6: whenever push returns NonMonotonic, the buffer and the policy are
\* exactly as before the call.
C6_FailedPushUnmodified ==
    [][(op' = "push" /\ result' = "NonMonotonic")
          => (data' = data /\ policy' = policy)]_vars

\* a push on a non-empty buffer has returned NonMonotonic
C6_Witness == op = "push" /\ result = "NonMonotonic" /\ data # <<>>

\* C7: push on a non-empty buffer whose last entry has a date strictly
\* later than the pushed date returns NonMonotonic, whatever the time.
C7_EarlierDateRejected ==
    [][(op' = "push" /\ data # <<>> /\ Last(data)[1] > arg_date')
          => result' = "NonMonotonic"]_vars

\* a push of a date before the last entry's has been made, at a time later
\* than the last entry's
C7_Witness ==
    /\ op = "push" /\ data # <<>>
    /\ Last(data)[1] > arg_date
    /\ coarse_cmp(Last(data)[2], reduce_to(arg_time, policy.max_res)) = "Less"

\* C8 (as claimed): with last entry (d, t) and a push of (d, t2, x), t2
\* clamped to max_res: if it precedes t under coarse_cmp the push returns
\* NonMonotonic and changes nothing; if it equals t the payload is merged
\* into the last entry; if it is later a new entry is appended.
C8_SameDatePush ==
    [][(op' = "push" /\ data # <<>> /\ Last(data)[1] = arg_date')
          => LET t == Last(data)[2]
                 t2 == reduce_to(arg_time', policy.max_res)
                 x == <<count + 1>>
             IN /\ coarse_cmp(t2, t) = "Less"
                     => (result' = "NonMonotonic" /\ data' = data)
                /\ t2 = t
                     => /\ result' = "Ok"
                        /\ data' = [data EXCEPT ![Len(data)][3] = @ \o x]
                /\ coarse_cmp(t2, t) = "Greater"
                     => /\ result' = "Ok"
                        /\ data' = Append(data, <<arg_date', t2, x>>)]_vars

\* least days among the builder's rules that an entry of this age has not
\* reached yet, and the resolution of that rule
RulesAhead(age) == {rules[i] : i \in {j \in 1..Len(rules) : age < rules[j][1]}}

ResolutionAtAge(age) ==
    (CHOOSE r \in RulesAhead(age) : \A q \in RulesAhead(age) : r[1] <= q[1])[2]

\* C9 (resolution by age): with pushes in non-decreasing date order of
\* times at least as fine as max_res, after a push on date today every
\* stored entry of date d is covered by a rule (today - d < n_k) and has
\* exactly the resolution of the rule with the least days n_i > today - d.
C9_ResolutionByAge ==
    (in_order /\ op = "push") =>
        \A e \in Entries :
            /\ RulesAhead(arg_date - e[1]) # {}
            /\ resolution(e[2]) = ResolutionAtAge(arg_date - e[1])

\* under a policy of three rules the buffer holds entries of three ages,
\* at the three resolutions
C9_Witness ==
    /\ in_order /\ op = "push" /\ Len(rules) = 3
    /\ {resolution(e[2]) : e \in Entries} = {rules[i][2] : i \in 1..Len(rules)}

\* the three-level policy, as test_3_level gives it to the builder
ThreeLevel == <<<<2, AmPm>>, <<3, Day>>, <<1, Hour>>>>

\* the three-level scenario after the push of Jan-4: samples 2, 3, 4 were
\* pushed on Jan-2, Jan-3, Jan-4 and are the ones the buffer still covers,
\* sample 1 was pushed before them (on Jan-1, the only earlier date) and
\* every time was at least as fine as Hour
ThreeLevelJan4 ==
    /\ rules = ThreeLevel /\ in_order /\ op = "push"
    /\ kept = <<<<2, <<2>>>>, <<3, <<3>>>>, <<4, <<4>>>>>>

\* C10 (as claimed): after the Jan-4 push the buffer holds Jan-1 at Day,
\* Jan-2 at AmPm and Jan-3 at Hour.
C10_ThreeLevelAsStated ==
    ThreeLevelJan4 =>
        /\ \E e \in Entries : e[1] = 1 /\ resolution(e[2]) = Day
        /\ \E e \in Entries : e[1] = 2 /\ resolution(e[2]) = AmPm
        /\ \E e \in Entries : e[1] = 3 /\ resolution(e[2]) = Hour

\* C10 (amended): after the Jan-4 push Jan-1 has been discarded and the
\* buffer holds Jan-2 at Day, Jan-3 at AmPm and Jan-4 at Hour.
C10_ThreeLevel ==
    ThreeLevelJan4 =>
        /\ Len(data) = 3
        /\ data[1][1] = 2 /\ resolution(data[1][2]) = Day
        /\ data[2][1] = 3 /\ resolution(data[2][2]) = AmPm
        /\ data[3][1] = 4 /\ resolution(data[3][2]) = Hour

C10_Witness == ThreeLevelJan4 /\ result = "Ok" /\ arg_date = 4

(* ---------------------------------------------------------------------- *)
(* The whole-day policies: one rule (n days, Day), and a caller that only  *)
(* pushes (test_one_day, test_two_days)                                    *)
(* ---------------------------------------------------------------------- *)

WholeDayRuleLists == {<<<<n, Day>>>> : n \in 1..MaxDays}

InitWholeDay ==
    /\ rules \in WholeDayRuleLists
    /\ built = build(rules)
    /\ "ok" \in DOMAIN built
    /\ policy = built.ok
    /\ data = <<>>
    /\ op = "new"
    /\ arg_date = 0
    /\ arg_time = WHOLE_DAY
    /\ result = "Ok"
    /\ count = 0
    /\ kept = <<>>
    /\ in_order = TRUE
    /\ latest = 0
    /\ time = WHOLE_DAY
    /\ parts = <<>>
    /\ call = NoCall

NextWholeDay == \E date \in Dates, t \in Times : Push(date, t, <<count + 1>>)

SpecWholeDay == InitWholeDay /\ [][NextWholeDay]_vars

\* the dates of the samples in a log of <<date, payload>>
DatesOf(log) == {log[i][1] : i \in 1..Len(log)}

\* the payloads of the samples of date d in a log, merged in log order
PayloadOn(log, d) == Concat(SelectSeq(log, LAMBDA e : e[1] = d), 2)

\* C11 (whole-day policy): under a policy of the one rule (n days, Day),
\* after pushes on non-decreasing dates, each of them successful, the
\* buffer holds exactly one entry per pushed date d with
\* today - n < d <= today, at WHOLE_DAY whatever time was pushed, holding
\* the samples pushed on d merged in push order.
C11_WholeDay ==
    (in_order /\ op = "push") =>
        /\ result = "Ok"
        /\ \A d \in DatesOf(kept) : arg_date - rules[1][1] < d /\ d <= arg_date
        /\ Len(data) = Cardinality(DatesOf(kept))
        /\ Entries = {<<d, WHOLE_DAY, PayloadOn(kept, d)>> : d \in DatesOf(kept)}

\* pushes of times finer than Day have left two dates in the buffer, one
\* of them with merged samples, and an older date has been dropped
C11_Witness ==
    /\ in_order /\ op = "push" /\ arg_time # WHOLE_DAY
    /\ Len(kept) < count
    /\ Len(data) = 2
    /\ \E e \in Entries : Len(e[3]) >= 2


(* ---------------------------------------------------------------------- *)
(* Properties of apply_policy and update_date                              *)
(* ---------------------------------------------------------------------- *)

\* the dates at which update_date applies the policy to the buffer: those
\* strictly after the last entry's
LaterDates == IF data = <<>> THEN {} ELSE (Last(data)[1] + 1)..(MaxDate + 1)

\* C12 (idempotence of apply): in every reachable state and for every date
\* at which update_date applies the policy, applying it a second time
\* leaves the buffer that the first application left.
C12_ApplyIdempotent ==
    \A date \in LaterDates :
        LET once == apply_policy(data, policy, date)
        IN once.ok => apply_policy(once.data, policy, date) = once

\* a state in which applying the policy discards an entry and compacts
\* another
C12_Witness ==
    \E date \in LaterDates :
        LET once == apply_policy(data, policy, date)
        IN /\ once.ok
           /\ Len(discard(data, date - policy.max_retention)) < Len(data)
           /\ once.data # <<>>
           /\ once.data # discard(data, date - policy.max_retention)

\* the orders in which n rules can be applied
Orders(n) ==
    {p \in [1..n -> 1..n] : \A i \in 1..n, j \in 1..n : p[i] = p[j] => i = j}

Permuted(seq, p) == [i \in 1..Len(seq) |-> seq[p[i]]]

\* C13 (rule-order independence): for every reachable buffer and every
\* date, the compactions of the policy's rules applied after the discard
\* in any order leave the buffer that apply_policy leaves.
C13_RuleOrderIndependent ==
    \A date \in 1..(MaxDate + 1) :
        \A p \in Orders(Len(policy.compaction_rules)) :
            apply_rules(discard(data, date - policy.max_retention),
                        Permuted(policy.compaction_rules, p), date, 1)
                = apply_policy(data, policy, date)

\* a buffer and a date for which the first two rules, taken in the
\* opposite order, each change the buffer
C13_Witness ==
    /\ Len(policy.compaction_rules) >= 2
    /\ \E date \in 1..(MaxDate + 1) :
           LET r1 == policy.compaction_rules[1]
               r2 == policy.compaction_rules[2]
               xs == discard(data, date - policy.max_retention)
               ys == compact(xs, date - r2[1], r2[2])
           IN /\ ys # xs
              /\ compact(ys, date - r1[1], r1[2]) # ys

\* C14: update_date(date) changes the Compactor only when date is strictly
\* after the last entry's date, and then does to the buffer exactly what
\* apply_policy(policy, date) does; otherwise the buffer is as before; in
\* no case does the buffer gain an entry, and the policy stays as it was.
C14_UpdateDateFrame ==
    [][op' = "update_date" =>
          /\ policy' = policy
          /\ Len(data') <= Len(data)
          /\ data' = IF data # <<>> /\ arg_date' > Last(data)[1]
                     THEN apply_policy(data, policy, arg_date').data
                     ELSE data]_vars

\* update_date has compacted the newest entry down to a whole day, which
\* no push does: pushes leave the newest date as fine as it was pushed
C14_Witness ==
    /\ op = "update_date" /\ result = "Ok" /\ data # <<>>
    /\ arg_date > Last(data)[1]
    /\ policy.max_res > Day
    /\ resolution(Last(data)[2]) = Day
    /\ Len(Last(data)[3]) >= 2

(* ---------------------------------------------------------------------- *)
(* The policy builder: keep_for_days calls, then build                     *)
(* ---------------------------------------------------------------------- *)

BuilderDays == 0..MaxDays

BuilderResolutions == {Day, AmPm, Hour}

\* build() has not been called
NotBuilt == [pending |-> TRUE]

\* the value the Compactor's policy field is given while no Compactor
\* exists
NoPolicy == [compaction_rules |-> <<>>, max_res |-> Day, max_retention |-> 0]

\* Policy::new(): PolicyBuilder::default()
InitPolicy ==
    /\ rules = <<>>
    /\ built = NotBuilt
    /\ policy = NoPolicy
    /\ data = <<>>
    /\ op = "new"
    /\ arg_date = 0
    /\ arg_time = WHOLE_DAY
    /\ result = "Ok"
    /\ count = 0
    /\ kept = <<>>
    /\ in_order = TRUE
    /\ latest = 0
    /\ time = WHOLE_DAY
    /\ parts = <<>>
    /\ call = NoCall

\* PolicyBuilder::keep_for_days; build consumes the builder, so there is
\* no call after it
KeepForDays(num_days, res) ==
    /\ built = NotBuilt
    /\ Len(rules) < MaxRules
    /\ rules' = Append(rules, <<num_days, res>>)
    /\ op' = "keep_for_days"
    /\ UNCHANGED <<built, policy, data, arg_date, arg_time, result, count, kept, in_order,
                   latest, time, parts, call>>

\* PolicyBuilder::build
Build ==
    /\ built = NotBuilt
    /\ built' = build(rules)
    /\ op' = "build"
    /\ UNCHANGED <<rules, policy, data, arg_date, arg_time, result, count, kept, in_order,
                   latest, time, parts, call>>

NextPolicy ==
    \/ \E num_days \in BuilderDays, res \in BuilderResolutions :
           KeepForDays(num_days, res)
    \/ Build

SpecPolicy == InitPolicy /\ [][NextPolicy]_vars

(* ---------------------------------------------------------------------- *)
(* Properties of build                                                     *)
(* ---------------------------------------------------------------------- *)

\* the rules the builder was given, as a set
RuleSet == {rules[i] : i \in 1..Len(rules)}

HasZeroDays == \E r \in RuleSet : r[1] = 0

\* two rules of the same days and different resolutions, or one rule with
\* both more days and a finer resolution than another
Dominated(S) ==
    \E a \in S, b \in S :
        \/ a[1] = b[1] /\ a[2] # b[2]
        \/ a[1] > b[1] /\ a[2] > b[2]

\* the distinct rules by descending days, the finer first among equal days
RECURSIVE ByDescendingDays(_)
ByDescendingDays(S) ==
    IF S = {} THEN <<>>
    ELSE LET first == CHOOSE x \in S :
                 \A y \in S : x[1] > y[1] \/ (x[1] = y[1] /\ x[2] >= y[2])
         IN <<first>> \o ByDescendingDays(S \ {first})

StrictlyFiner(seq) == \A i \in 1..(Len(seq) - 1) : seq[i][2] < seq[i + 1][2]

\* one listing of a set of rules, the same for every list with that set
RECURSIVE Listing(_)
Listing(S) ==
    IF S = {} THEN <<>>
    ELSE LET x == CHOOSE y \in S : TRUE
         IN <<x>> \o Listing(S \ {x})

BuildOk == "ok" \in DOMAIN built

\* C15: build() on no rules returns ZeroRetention, and on a rule list with
\* a zero-day rule returns PolicyAppliesForZeroDays, also when the rules
\* would be rejected as dominated.
C15_ValidationPrecedence ==
    built # NotBuilt =>
        /\ rules = <<>> => built = [err |-> "ZeroRetention"]
        /\ rules # <<>> /\ HasZeroDays => built = [err |-> "PolicyAppliesForZeroDays"]

\* build() has returned PolicyAppliesForZeroDays for rules that are also
\* dominated
C15_Witness ==
    /\ built = [err |-> "PolicyAppliesForZeroDays"]
    /\ Dominated(RuleSet)

\* C16: for a non-empty rule list without zero-day rules, build() fails
\* with SomePoliciesDominateOthers exactly when the rules by descending
\* days, duplicates removed, are not strictly increasing in fineness.
C16_StrictDominationCheck ==
    (built # NotBuilt /\ rules # <<>> /\ ~HasZeroDays) =>
        IF StrictlyFiner(ByDescendingDays(RuleSet))
        THEN BuildOk
        ELSE built = [err |-> "SomePoliciesDominateOthers"]

\* C17 as stated: whenever the rules are dominated, in whatever order they
\* were given, build() returns SomePoliciesDominateOthers.
C17_DominatedRejectedAsStated ==
    (built # NotBuilt /\ Dominated(RuleSet)) =>
        built = [err |-> "SomePoliciesDominateOthers"]

\* C17: whenever the rules are dominated, in whatever order they were
\* given, build() returns an error: SomePoliciesDominateOthers, or
\* PolicyAppliesForZeroDays when one of the rules has zero days.
C17_DominatedRejected ==
    (built # NotBuilt /\ Dominated(RuleSet)) =>
        built = IF HasZeroDays
                THEN [err |-> "PolicyAppliesForZeroDays"]
                ELSE [err |-> "SomePoliciesDominateOthers"]

\* build() has rejected a rule given after the rule it dominates
C17_Witness ==
    /\ built = [err |-> "SomePoliciesDominateOthers"]
    /\ \E i \in 1..Len(rules), j \in 1..Len(rules) :
           i < j /\ rules[j][1] > rules[i][1] /\ rules[j][2] > rules[i][2]

C19_MaxResAndRetention ==
    BuildOk =>
        /\ \E r \in RuleSet : built.ok.max_res = r[2]
        /\ \A r \in RuleSet : built.ok.max_res >= r[2]
        /\ \E r \in RuleSet : built.ok.max_retention = r[1]
        /\ \A r \in RuleSet : built.ok.max_retention >= r[1]

\* a Policy built from three different rules, the one of most days given
\* last
C19_Witness ==
    /\ BuildOk
    /\ Cardinality(RuleSet) = 3
    /\ \A i \in 1..(Len(rules) - 1) : rules[i][1] < rules[Len(rules)][1]

\* C20 as stated: the compaction rules of a built Policy are the rules by
\* descending days without the first, (n_2, r_2), ..., (n_k, r_k).
C20_CompactionRulesAsStated ==
    BuildOk => built.ok.compaction_rules = Tail(ByDescendingDays(RuleSet))

\* C20: the compaction rules of a built Policy pair each rule's
\* resolution with the days of the next rule by descending days:
\* (n_2, r_1), ..., (n_k, r_(k-1)).
C20_CompactionRules ==
    BuildOk =>
        LET s == ByDescendingDays(RuleSet)
        IN built.ok.compaction_rules =
               [i \in 1..(Len(s) - 1) |-> <<s[i + 1][1], s[i][2]>>]

\* a Policy built from three rules of different resolutions
C20_Witness ==
    /\ BuildOk
    /\ Len(built.ok.compaction_rules) = 2
    /\ built.ok.compaction_rules[1][2] # built.ok.compaction_rules[2][2]


(* ---------------------------------------------------------------------- *)
(* Callers of the Resolution functions                                     *)
(* ---------------------------------------------------------------------- *)

\* no policy builder and no Compactor is in use
NoCompactor ==
    /\ rules = <<>>
    /\ built = NotBuilt
    /\ policy = NoPolicy
    /\ data = <<>>
    /\ op = "new"
    /\ arg_date = 0
    /\ arg_time = WHOLE_DAY
    /\ result = "Ok"
    /\ count = 0
    /\ kept = <<>>
    /\ in_order = TRUE
    /\ latest = 0

compactor_vars ==
    <<rules, built, policy, data, op, arg_date, arg_time, result, count, kept, in_order,
      latest>>

\* a caller holding two resolutions
InitResolution ==
    /\ NoCompactor
    /\ time = WHOLE_DAY
    /\ parts = <<>>
    /\ call \in {[fn |-> "args", args |-> <<a, b>>] : a \in Resolution, b \in Resolution}

\* a / b
Div ==
    /\ call.fn = "args"
    /\ call' = [fn |-> "div", args |-> call.args,
                ret |-> div(call.args[1], call.args[2])]
    /\ UNCHANGED <<compactor_vars, time, parts>>

\* Resolution::range(a, b)
Range ==
    /\ call.fn = "args"
    /\ call' = [fn |-> "range", args |-> call.args,
                ret |-> range(call.args[1], call.args[2])]
    /\ UNCHANGED <<compactor_vars, time, parts>>

\* a.coarser()
Coarser ==
    /\ call.fn = "args"
    /\ call' = [fn |-> "coarser", args |-> <<call.args[1]>>,
                ret |-> coarser(call.args[1])]
    /\ UNCHANGED <<compactor_vars, time, parts>>

\* a.finer()
Finer ==
    /\ call.fn = "args"
    /\ call' = [fn |-> "finer", args |-> <<call.args[1]>>,
                ret |-> finer(call.args[1])]
    /\ UNCHANGED <<compactor_vars, time, parts>>

NextResolution == Div \/ Range \/ Coarser \/ Finer

SpecResolution == InitResolution /\ [][NextResolution]_vars

\* C27 (quotient): a / b is width(a) / width(b) in integer arithmetic when
\* a is coarser than b, and 1 when it is not.
C27_Quotient ==
    call.fn = "div" =>
        LET a == call.args[1]
            b == call.args[2]
        IN call.ret = IF a < b THEN width(a) \div width(b) ELSE 1

\* Day / Hour has been computed, and is 24
C27_Witness == call.fn = "div" /\ call.args = <<Day, Hour>> /\ call.ret = 24

\* C28 (width ratio): for every resolution r other than Day,
\* width(r) * subdivision(r) = width(coarser(r)).
C28_WidthRatio ==
    (call.fn = "coarser" /\ call.args[1] # Day) =>
        /\ call.ret \in Resolution
        /\ width(call.args[1]) * subdivision(call.args[1]) = width(call.ret)

\* the coarser of FiveHundredMilli has been taken, and is Second
C28_Witness == call.fn = "coarser" /\ call.args = <<FiveHundredMilli>> /\ call.ret = Second


(* ---------------------------------------------------------------------- *)
(* A Time built with set_hour, set_minute, set_second and set_millis, in   *)
(* this order, and then re-coarsened                                       *)
(* ---------------------------------------------------------------------- *)

\* arguments run from 0 to one past the largest legal value
MaxHourArg == 24

MaxMinuteArg == 60

MaxSecondArg == 60

MaxMillisArg == 1000

\* the hours, minutes and seconds under which finer components are set
KeyPrefixes == {<<0, 0, 0>>, <<15, 7, 24>>, <<23, 59, 59>>}

\* the milliseconds at which a Time is re-coarsened
KeyMillis == {0, 76, 999}

\* 15:07:24.076
KeyTime == <<15, 7, 24, 76>>

InitTime ==
    /\ NoCompactor
    /\ time = WHOLE_DAY
    /\ parts = <<>>
    /\ call = NoCall

\* t.set_hour(x)
SetHour ==
    /\ call.fn # "reduce_to"
    /\ Len(parts) = 0
    /\ \E x \in 0..MaxHourArg :
        /\ time' = with_hour(time, x)
        /\ parts' = IF x <= 23 THEN <<x>> ELSE parts
    /\ call' = NoCall
    /\ UNCHANGED compactor_vars

\* t.set_minute(x)
SetMinute ==
    /\ call.fn # "reduce_to"
    /\ \E k \in KeyPrefixes : parts = SubSeq(k, 1, 1)
    /\ \E x \in 0..MaxMinuteArg :
        /\ time' = with_minute(time, x)
        /\ parts' = IF x <= 59 THEN Append(parts, x) ELSE parts
    /\ call' = NoCall
    /\ UNCHANGED compactor_vars

\* t.set_second(x)
SetSecond ==
    /\ call.fn # "reduce_to"
    /\ \E k \in KeyPrefixes : parts = SubSeq(k, 1, 2)
    /\ \E x \in 0..MaxSecondArg :
        /\ time' = with_second(time, x)
        /\ parts' = IF x <= 59 THEN Append(parts, x) ELSE parts
    /\ call' = NoCall
    /\ UNCHANGED compactor_vars

\* t.set_millis(x)
SetMillis ==
    /\ call.fn # "reduce_to"
    /\ parts \in KeyPrefixes
    /\ \E x \in 0..MaxMillisArg :
        /\ time' = with_millis(time, x)
        /\ parts' = IF x <= 999 THEN Append(parts, x) ELSE parts
    /\ call' = NoCall
    /\ UNCHANGED compactor_vars

\* the Times that are re-coarsened
Sampled == Len(parts) = 4 => parts[4] \in KeyMillis

\* t.reduce_to(res), in place; 15:07:24.076 is reduced again and again
ReduceTo ==
    /\ Sampled
    /\ call.fn = "reduce_to" => parts = KeyTime
    /\ \E res \in Resolution :
        /\ time' = reduce_to(time, res)
        /\ call' = [fn |-> "reduce_to", args |-> <<res>>, self |-> time]
    /\ UNCHANGED <<compactor_vars, parts>>

\* t.with_res(res), of a copy; every millisecond of 15:07:24 is taken
WithRes ==
    /\ Sampled \/ (Len(parts) = 4 /\ \A i \in 1..3 : parts[i] = KeyTime[i])
    /\ call.fn # "reduce_to"
    /\ \E res \in Resolution :
        call' = [fn |-> "with_res", args |-> <<res>>, self |-> time,
                 ret |-> with_res(time, res)]
    /\ UNCHANGED <<compactor_vars, time, parts>>

NextTime == SetHour \/ SetMinute \/ SetSecond \/ SetMillis \/ ReduceTo \/ WithRes

SpecTime == InitTime /\ [][NextTime]_vars

\* C21 (encoding round-trip): a fresh Time on which hour, minute, second
\* and millis have been set in this order, each in its legal range, reads
\* back every component set so far.
C21_RoundTrip ==
    call.fn # "reduce_to" =>
        /\ Len(parts) >= 1 => hour(time) = parts[1]
        /\ Len(parts) >= 2 => minute(time) = parts[2]
        /\ Len(parts) >= 3 => second(time) = parts[3]
        /\ Len(parts) >= 4 => millis(time) = parts[4]

\* 23:59:59.999 has been set
C21_Witness ==
    /\ call = NoCall
    /\ parts = <<23, 59, 59, 999>>
    /\ resolution(time) = Millisecond
    /\ millis(time) = 999

\* C22 as stated (trailing-zero identity): for every resolution r,
\* reduce_to(r) applied to Time::default() gives a Time of resolution r.
C22_TrailingZeroIdentityAsStated ==
    (call.fn = "reduce_to" /\ call.self = WHOLE_DAY) =>
        resolution(time) = call.args[1]

\* C22 (trailing-zero identity): reduce_to(r) gives a Time of resolution r
\* when applied to a Time that is at least as fine as r; applied to
\* Time::default(), which has resolution Day, it gives Time::default() for
\* every r; and from_trailing_zeros(trailing_zeros(r)) = r.
C22_TrailingZeroIdentity ==
    call.fn = "reduce_to" =>
        LET r == call.args[1]
        IN /\ r <= resolution(call.self) => resolution(time) = r
           /\ call.self = WHOLE_DAY => time = WHOLE_DAY /\ resolution(time) = Day
           /\ from_trailing_zeros(trailing_zeros(r)) = r

\* Time::default() has been reduced to Millisecond, and is still WHOLE_DAY
C22_Witness ==
    /\ call.fn = "reduce_to"
    /\ call.self = WHOLE_DAY
    /\ call.args = <<Millisecond>>
    /\ time = WHOLE_DAY

\* C23 (reduce_to): if r is not coarser than the resolution of v, v is
\* unchanged; otherwise the result has resolution r, its bits above
\* trailing_zeros(r) are those of v, the bit trailing_zeros(r) is set and
\* the bits below are zero.  The result is a fixed point of reduce_to(r)
\* and is never finer than v.
C23_ReduceTo ==
    call.fn = "reduce_to" =>
        LET v == call.self
            r == call.args[1]
            z == trailing_zeros(r)
        IN /\ IF r >= resolution(v)
              THEN time = v
              ELSE /\ resolution(time) = r
                   /\ {b \in time : b > z} = {b \in v : b > z}
                   /\ z \in time
                   /\ {b \in time : b < z} = {}
           /\ reduce_to(time, r) = time
           /\ resolution(time) <= resolution(v)

\* 15:07:24.076 has been reduced to FiveMinute, and reads 15:05
C23_Witness ==
    /\ call.fn = "reduce_to"
    /\ parts = KeyTime
    /\ resolution(call.self) = Millisecond
    /\ call.args = <<FiveMinute>>
    /\ hour(time) = 15
    /\ minute(time) = 5

\* milliseconds of the day of the components h, m, s, ms
MillisOfDay(p) == ((p[1] * 60 + p[2]) * 60 + p[3]) * 1000 + p[4]

\* C24 (bucket-start readers): for a full-resolution Time T and every
\* resolution r, hour, minute, second and millis of T.with_res(r) are the
\* components of floor(T / width(r)) * width(r).
C24_BucketStart ==
    (call.fn = "with_res" /\ Len(parts) = 4) =>
        LET v == call.ret
            w == width(call.args[1])
            start == (MillisOfDay(parts) \div w) * w
        IN /\ v # None
           /\ hour(v) = start \div 3600000
           /\ minute(v) = (start \div 60000) % 60
           /\ second(v) = (start \div 1000) % 60
           /\ millis(v) = start % 1000

\* 15:07:24.076 has been taken at resolution FifteenSecond: 15:07:15.000
C24_Witness ==
    /\ call.fn = "with_res"
    /\ parts = KeyTime
    /\ call.args = <<FifteenSecond>>
    /\ hour(call.ret) = 15
    /\ minute(call.ret) = 7
    /\ second(call.ret) = 15
    /\ millis(call.ret) = 0

HourArgs == {0, 11, 23, MaxHourArg}

MinuteArgs == {0, 59, MaxMinuteArg}

SecondArgs == {0, 59, MaxSecondArg}

MillisArgs == {0, 999, MaxMillisArg}

\* AmPm::AM, AmPm::PM as u8
AmPmArgs == {0, 1}

\* SixHour::Night .. SixHour::Evening as u8
SixHourArgs == {0, 1, 2, 3}

\* t.try_with_am_pm(x) and t = t.with_am_pm(x)
WithAmPm ==
    /\ \E x \in AmPmArgs :
        /\ call' = [fn |-> "with_am_pm", args |-> <<x>>, self |-> time,
                    ret |-> try_with_am_pm(time, x)]
        /\ time' = with_am_pm(time, x)
    /\ UNCHANGED <<compactor_vars, parts>>

\* t.try_with_time_of_day(x) and t = t.with_time_of_day(x)
WithTimeOfDay ==
    /\ \E x \in SixHourArgs :
        /\ call' = [fn |-> "with_time_of_day", args |-> <<x>>, self |-> time,
                    ret |-> try_with_time_of_day(time, x)]
        /\ time' = with_time_of_day(time, x)
    /\ UNCHANGED <<compactor_vars, parts>>

\* t.try_with_hour(x) and t = t.with_hour(x)
WithHour ==
    /\ \E x \in HourArgs :
        /\ call' = [fn |-> "with_hour", args |-> <<x>>, self |-> time,
                    ret |-> try_with_hour(time, x)]
        /\ time' = with_hour(time, x)
    /\ UNCHANGED <<compactor_vars, parts>>

\* t.try_with_minute(x) and t = t.with_minute(x)
WithMinute ==
    /\ \E x \in MinuteArgs :
        /\ call' = [fn |-> "with_minute", args |-> <<x>>, self |-> time,
                    ret |-> try_with_minute(time, x)]
        /\ time' = with_minute(time, x)
    /\ UNCHANGED <<compactor_vars, parts>>

\* t.try_with_second(x) and t = t.with_second(x)
WithSecond ==
    /\ \E x \in SecondArgs :
        /\ call' = [fn |-> "with_second", args |-> <<x>>, self |-> time,
                    ret |-> try_with_second(time, x)]
        /\ time' = with_second(time, x)
    /\ UNCHANGED <<compactor_vars, parts>>

\* t.try_with_millis(x) and t = t.with_millis(x)
WithMillis ==
    /\ \E x \in MillisArgs :
        /\ call' = [fn |-> "with_millis", args |-> <<x>>, self |-> time,
                    ret |-> try_with_millis(time, x)]
        /\ time' = with_millis(time, x)
    /\ UNCHANGED <<compactor_vars, parts>>

NextSetters ==
    WithAmPm \/ WithTimeOfDay \/ WithHour \/ WithMinute \/ WithSecond \/ WithMillis

SpecSetters == InitTime /\ [][NextSetters]_vars

\* the resolution a setter requires, and its largest legal argument
SetterParent(fn) ==
    CASE fn = "with_am_pm" -> Day
      [] fn = "with_time_of_day" -> Day
      [] fn = "with_hour" -> Day
      [] fn = "with_minute" -> Hour
      [] fn = "with_second" -> Minute
      [] fn = "with_millis" -> Second

SetterMax(fn) ==
    CASE fn = "with_am_pm" -> 1
      [] fn = "with_time_of_day" -> 3
      [] fn = "with_hour" -> 23
      [] fn = "with_minute" -> 59
      [] fn = "with_second" -> 59
      [] fn = "with_millis" -> 999

\* C29 (setter preconditions): a with_* setter changes the value only when
\* the resolution of the value is the parent resolution of the component
\* and the argument is in range; otherwise with_* returns the value
\* unchanged and try_with_* returns None.  The result is always a Time
\* with a resolution (nothing panics).
C29_SetterPreconditions ==
    call.fn # "none" =>
        LET ok == /\ resolution(call.self) = SetterParent(call.fn)
                  /\ call.args[1] <= SetterMax(call.fn)
        IN /\ time # call.self => ok
           /\ ~ok => time = call.self /\ call.ret = None
           /\ time # None
           /\ resolution(time) \in Resolution

\* with_minute(59) on a Time of resolution Second returned it unchanged
C29_Witness ==
    /\ call.fn = "with_minute"
    /\ call.args = <<59>>
    /\ resolution(call.self) = Second
    /\ call.ret = None
    /\ time = call.self


(* ---------------------------------------------------------------------- *)
(* Callers that compare two Times                                          *)
(* ---------------------------------------------------------------------- *)

\* Time::default().with_hour(p[1]).with_minute(p[2]).with_second(p[3])
\* .with_millis(p[4]), as far as p goes
FromParts(p) ==
    LET t1 == IF Len(p) >= 1 THEN with_hour(WHOLE_DAY, p[1]) ELSE WHOLE_DAY
        t2 == IF Len(p) >= 2 THEN with_minute(t1, p[2]) ELSE t1
        t3 == IF Len(p) >= 3 THEN with_second(t2, p[3]) ELSE t2
    IN IF Len(p) >= 4 THEN with_millis(t3, p[4]) ELSE t3

\* the milliseconds around the steps of the millisecond resolutions
MillisSamples == {0, 1, 4, 5, 9, 10, 49, 50, 99, 100, 499, 500, 999}

\* how the Times compared are made: by the setters (every hour, every
\* minute of 15h, every second of 15:07, the sampled milliseconds of
\* 15:07:24, and the first and last Time of each level) ...
SetterMade ==
    LET ps == {<<>>}
                \cup {<<h>> : h \in 0..23}
                \cup {<<15, m>> : m \in 0..59}
                \cup {<<15, 7, sec>> : sec \in 0..59}
                \cup {<<15, 7, 24, ms>> : ms \in MillisSamples}
                \cup {<<0, 0>>, <<23, 59>>, <<0, 0, 0>>, <<23, 59, 59>>,
                      <<0, 0, 0, 0>>, <<23, 59, 59, 999>>}
    IN {[via |-> "set", parts |-> p, res |-> Day] : p \in ps}
         \cup {[via |-> "am_pm", parts |-> <<x>>, res |-> Day] : x \in AmPmArgs}
         \cup {[via |-> "time_of_day", parts |-> <<x>>, res |-> Day] : x \in SixHourArgs}

\* ... or by reducing a full-resolution Time to a resolution
Reduced ==
    {[via |-> "reduce", parts |-> p, res |-> r] :
        p \in {<<15, 7, 24, 76>>, <<15, 7, 30, 0>>, <<0, 0, 0, 0>>, <<23, 59, 59, 999>>},
        r \in Resolution}

\* the Time made
Made(d) ==
    CASE d.via = "set" -> FromParts(d.parts)
      [] d.via = "am_pm" -> with_am_pm(WHOLE_DAY, d.parts[1])
      [] d.via = "time_of_day" -> with_time_of_day(WHOLE_DAY, d.parts[1])
      [] d.via = "reduce" -> reduce_to(FromParts(d.parts), d.res)

\* the pairs compared: setter-made Times of one level, the first and
\* last of each level with each other, and reduced Times with each other
Compared(da, db) ==
    \/ /\ da.via = db.via
       /\ Len(da.parts) = Len(db.parts)
    \/ /\ da.via # "reduce" /\ db.via # "reduce"
       /\ \A d \in {da, db} :
            d.via = "set" => \A i \in 1..Len(d.parts) : d.parts[i] \in {0, 23, 59, 999}

InitCompare ==
    /\ NoCompactor
    /\ \E da \in SetterMade \cup Reduced :
        /\ time = Made(da)
        /\ parts = da.parts
        /\ \E db \in SetterMade \cup Reduced :
            /\ Compared(da, db)
            /\ call = [fn |-> "args", self |-> da, arg |-> db, other |-> Made(db)]

\* time.partial_cmp(&other)
PartialCmp ==
    /\ call.fn = "args"
    /\ call' = [fn |-> "partial_cmp", self |-> call.self, arg |-> call.arg,
                other |-> call.other, ret |-> partial_cmp(time, call.other)]
    /\ UNCHANGED <<compactor_vars, time, parts>>

\* time.coarse_cmp(other)
CoarseCmp ==
    /\ call.fn = "args"
    /\ call' = [fn |-> "coarse_cmp", self |-> call.self, arg |-> call.arg,
                other |-> call.other, ret |-> coarse_cmp(time, call.other)]
    /\ UNCHANGED <<compactor_vars, time, parts>>

NextCompare == PartialCmp \/ CoarseCmp

SpecCompare == InitCompare /\ [][NextCompare]_vars

\* the resolution that a Time made in this way is meant to have
MeantRes(d) ==
    CASE d.via = "set" -> <<Day, Hour, Minute, Second, Millisecond>>[Len(d.parts) + 1]
      [] d.via = "am_pm" -> AmPm
      [] d.via = "time_of_day" -> TimeOfDay
      [] d.via = "reduce" -> d.res

\* the millisecond of the day at which its interval starts
MeantStart(d) ==
    LET p == d.parts \o <<0, 0, 0, 0>>
    IN CASE d.via = "set" -> MillisOfDay(p)
         [] d.via = "am_pm" -> d.parts[1] * width(AmPm)
         [] d.via = "time_of_day" -> d.parts[1] * width(TimeOfDay)
         [] d.via = "reduce" -> (MillisOfDay(p) \div width(d.res)) * width(d.res)

\* Ord::cmp of two numbers
NumCmp(x, y) == IF x < y THEN "Less" ELSE IF x > y THEN "Greater" ELSE "Equal"

\* the interval of da contains the interval of db
Contains(da, db) ==
    /\ MeantStart(da) <= MeantStart(db)
    /\ MeantStart(db) + width(MeantRes(db)) <= MeantStart(da) + width(MeantRes(da))

\* C25 (ordering within a resolution): two Times of the same resolution
\* built by the with_* setters are ordered by partial_cmp as their times of
\* day are; Times of different resolutions are not equal, and partial_cmp
\* gives None for them.
C25_OrderWithinResolution ==
    (call.fn = "partial_cmp" /\ call.self.via # "reduce" /\ call.arg.via # "reduce") =>
        IF MeantRes(call.self) = MeantRes(call.arg)
        THEN call.ret = NumCmp(MeantStart(call.self), MeantStart(call.arg))
        ELSE call.ret = "None" /\ time # call.other

\* 15:29 and 15:30 have been compared: Less
C25_Witness ==
    /\ call.fn = "partial_cmp"
    /\ call.self.via = "set" /\ call.self.parts = <<15, 29>>
    /\ call.arg.via = "set" /\ call.arg.parts = <<15, 30>>
    /\ call.ret = "Less"

\* C26 (coarse_cmp): coarse_cmp(a, b) is the comparison of a and b after
\* both are reduced to the coarser of their two resolutions; it is Equal
\* exactly when the interval of one contains the interval of the other;
\* and it is partial_cmp(a, b) when a and b have the same resolution.
C26_CoarseCmp ==
    call.fn = "coarse_cmp" =>
        LET a == time
            b == call.other
            c == IF resolution(a) <= resolution(b) THEN resolution(a) ELSE resolution(b)
        IN /\ call.ret = partial_cmp(reduce_to(a, c), reduce_to(b, c))
           /\ call.ret = "Equal" <=>
                (Contains(call.self, call.arg) \/ Contains(call.arg, call.self))
           /\ resolution(a) = resolution(b) => call.ret = partial_cmp(a, b)

\* 15:07:24.076 at FifteenSecond and at FiveMinute have been compared:
\* the second contains the first, Equal
C26_Witness ==
    /\ call.fn = "coarse_cmp"
    /\ call.self = [via |-> "reduce", parts |-> <<15, 7, 24, 76>>, res |-> FifteenSecond]
    /\ call.arg = [via |-> "reduce", parts |-> <<15, 7, 24, 76>>, res |-> FiveMinute]
    /\ time # call.other
    /\ call.ret = "Equal"


(* ---------------------------------------------------------------------- *)
(* Reading the buffer at a maximum resolution                              *)
(* ---------------------------------------------------------------------- *)

\* the resolutions asked for
IterResolutions == {Day, AmPm, Hour}

\* the iterator that re-coarsens: with_max_res over clones of the entries
iter_with_max_res(xs, res) == with_max_res(res, xs)

\* the caller collects the iterator
IterWithMaxRes ==
    /\ call = NoCall
    /\ \E res \in IterResolutions :
        call' = [fn |-> "iter_with_max_res", args |-> <<res>>,
                 ret |-> iter_with_max_res(data, res)]
    /\ UNCHANGED <<compactor_vars, time, parts>>

\* a caller that pushes and updates the date, and reads at the end
NextIter ==
    \/ call = NoCall /\ Next
    \/ IterWithMaxRes

SpecIter == Init /\ [][NextIter]_vars

\* C30 (re-coarsening iteration): iterating with maximum resolution r
\* yields entries of resolution <= r, oldest to newest, no two consecutive
\* ones with the same date and time, the payloads merged left to right;
\* they are the entries the buffer would hold after compacting all of it
\* to r; and the buffer is left as it was.
C30_IterWithMaxRes ==
    /\ [](call.fn = "iter_with_max_res" =>
            LET r == call.args[1]
                ys == call.ret
            IN /\ \A i \in 1..Len(ys) : resolution(ys[i][2]) <= r
               /\ \A i \in 1..(Len(ys) - 1) :
                    /\ date_cmp(ys[i][1], ys[i + 1][1]) # "Greater"
                    /\ <<ys[i][1], ys[i][2]>> # <<ys[i + 1][1], ys[i + 1][2]>>
               /\ Concat(ys, 3) = Concat(data, 3)
               /\ ys = compact(data, MaxDate, r))
    /\ [][call'.fn = "iter_with_max_res" => data' = data]_vars

\* the entries of 11h and 13h of one day have been read as one entry for
\* the whole day, and the buffer still holds both
C30_Witness ==
    /\ call.fn = "iter_with_max_res"
    /\ call.args = <<Day>>
    /\ \E i \in 1..(Len(data) - 1) :
        /\ data[i][1] = data[i + 1][1]
        /\ data[i][2] = from_hour(11)
        /\ data[i + 1][2] = from_hour(13)
    /\ Len(call.ret) < Len(data)
    /\ \E i \in 1..Len(call.ret) :
        call.ret[i][2] = WHOLE_DAY /\ Len(call.ret[i][3]) >= 2


(* ---------------------------------------------------------------------- *)
(* Callers that merge payloads (aggregate.rs)                              *)
(* ---------------------------------------------------------------------- *)

\* the values held by the payloads
MaxValue == 2

Values == 0..MaxValue

Kinds == {"Vec", "Min", "Max", "First", "Last", "Candlestick", "Option"}

\* the payloads of a kind that are merged
Payloads(kind) ==
    CASE kind = "Vec" -> {<<>>} \cup {<<v>> : v \in Values}
      [] kind \in {"Min", "Max", "First", "Last"} -> Values
      [] kind = "Candlestick" ->
            {candlestick_from(v) : v \in Values}
              \cup {candlestick_merge(candlestick_from(v), candlestick_from(w)) :
                      v \in Values, w \in Values}
      [] kind = "Option" -> {NoPayload} \cup {Some(v) : v \in Values}

\* Aggregate::merge of a kind
merge_of(kind, self, other) ==
    CASE kind = "Vec" -> merge(self, other)
      [] kind = "Min" -> min_merge(self, other)
      [] kind = "Max" -> max_merge(self, other)
      [] kind = "First" -> first_merge(self, other)
      [] kind = "Last" -> last_merge(self, other)
      [] kind = "Candlestick" -> candlestick_merge(self, other)
      [] kind = "Option" -> option_merge(self, other)

\* a caller holding three payloads of one kind, or a sequence of values
InitAggregate ==
    /\ NoCompactor
    /\ time = WHOLE_DAY
    /\ parts = <<>>
    /\ \/ \E kind \in Kinds : \E a \in Payloads(kind), b \in Payloads(kind), c \in Payloads(kind) :
            call = [fn |-> "args", kind |-> kind, args |-> <<a, b, c>>]
       \/ \E n \in 1..3 : \E xs \in [1..n -> Values] :
            call = [fn |-> "values", kind |-> "Candlestick", args |-> xs]

\* a.merge(b); a.merge(c)
MergeLeftToRight ==
    /\ call.fn = "args"
    /\ call' = [fn |-> "left", kind |-> call.kind, args |-> call.args,
                left |-> merge_of(call.kind,
                                  merge_of(call.kind, call.args[1], call.args[2]),
                                  call.args[3])]
    /\ UNCHANGED <<compactor_vars, time, parts>>

\* b.merge(c); a.merge(b)
MergeRightFirst ==
    /\ call.fn = "left"
    /\ call' = [fn |-> "both", kind |-> call.kind, args |-> call.args,
                left |-> call.left,
                right |-> merge_of(call.kind, call.args[1],
                                   merge_of(call.kind, call.args[2], call.args[3]))]
    /\ UNCHANGED <<compactor_vars, time, parts>>

\* Candlestick::from(xs[1]), then merge(Candlestick::from(x)) for the rest
RECURSIVE fold(_, _, _)
fold(acc, xs, i) ==
    IF i > Len(xs) THEN acc
    ELSE fold(candlestick_merge(acc, candlestick_from(xs[i])), xs, i + 1)

Fold ==
    /\ call.fn = "values"
    /\ call' = [fn |-> "fold", kind |-> call.kind, args |-> call.args,
                ret |-> fold(candlestick_from(call.args[1]), call.args, 2)]
    /\ UNCHANGED <<compactor_vars, time, parts>>

NextAggregate == MergeLeftToRight \/ MergeRightFirst \/ Fold

SpecAggregate == InitAggregate /\ [][NextAggregate]_vars

\* C31 (associative merge): for each payload combinator, merging a, then
\* b, then c gives what merging a with the merge of b and c gives; and a
\* non-empty sequence folded into a Candlestick gives its first, last,
\* least and greatest element.
C31_AssociativeMerge ==
    /\ call.fn = "both" => call.left = call.right
    /\ call.fn = "fold" =>
        LET xs == call.args
        IN /\ call.ret.first = xs[1]
           /\ call.ret.last = xs[Len(xs)]
           /\ \E i \in 1..Len(xs) : call.ret.min = xs[i]
           /\ \A i \in 1..Len(xs) : call.ret.min <= xs[i]
           /\ \E i \in 1..Len(xs) : call.ret.max = xs[i]
           /\ \A i \in 1..Len(xs) : call.ret.max >= xs[i]

\* 1, 2, 0 have been folded into a Candlestick
C31_Witness ==
    /\ call.fn = "fold"
    /\ call.args = <<1, 2, 0>>
    /\ call.ret = [first |-> 1, last |-> 0, min |-> 0, max |-> 2]


(* ---------------------------------------------------------------------- *)
(* Callers that reduce Times in two ways                                   *)
(* ---------------------------------------------------------------------- *)

\* the full-resolution Times that are reduced: the first and last
\* millisecond of the day, and times on both sides of the steps of
\* 15:07:30 and 12:00
BaseParts ==
    {<<0, 0, 0, 0>>, <<11, 59, 59, 999>>, <<12, 0, 0, 0>>, <<15, 7, 24, 76>>,
     <<15, 7, 29, 999>>, <<15, 7, 30, 0>>, <<23, 59, 59, 999>>}

\* the entries compacted: on one day or on two
EntryDates == {<<1, 1, 1>>, <<1, 1, 2>>, <<1, 2, 2>>}

\* a caller holding a Time of some resolution, or two or three Times of one
\* resolution in order
InitReduce ==
    /\ NoCompactor
    /\ parts = <<>>
    /\ \E res \in Resolution :
        \/ \E p \in BaseParts :
            /\ time = reduce_to(FromParts(p), res)
            /\ call = [fn |-> "one"]
        \/ \E p \in BaseParts, q \in BaseParts :
            /\ time = reduce_to(FromParts(p), res)
            /\ call = [fn |-> "two", other |-> reduce_to(FromParts(q), res)]
            /\ partial_cmp(time, call.other) \in {"Less", "Equal"}
        \/ \E p \in BaseParts, q \in BaseParts, d \in EntryDates :
            /\ time = reduce_to(FromParts(p), res)
            /\ call = [fn |-> "entries",
                       xs |-> <<<<d[1], time, <<1>>>>,
                                <<d[2], time, <<2>>>>,
                                <<d[3], reduce_to(FromParts(q), res), <<3>>>>>>]
            /\ partial_cmp(time, call.xs[3][2]) \in {"Less", "Equal"}

\* x = v; x.reduce_to(r1); x.reduce_to(r2); y = v; y.reduce_to(r2);
\* y.reduce_to(r1)
ReduceTwice ==
    /\ call.fn = "one"
    /\ \E r1 \in Resolution, r2 \in Resolution :
        call' = [fn |-> "reduce_twice", args |-> <<r1, r2>>,
                 x |-> reduce_to(reduce_to(time, r1), r2),
                 y |-> reduce_to(reduce_to(time, r2), r1)]
    /\ UNCHANGED <<compactor_vars, time, parts>>

\* a.reduce_to(r); b.reduce_to(r)
ReduceBoth ==
    /\ call.fn = "two"
    /\ \E r \in Resolution :
        call' = [fn |-> "reduce_both", args |-> <<r>>, other |-> call.other,
                 a |-> reduce_to(time, r), b |-> reduce_to(call.other, r)]
    /\ UNCHANGED <<compactor_vars, time, parts>>

\* with_max_res(r, xs).collect()
WithMaxRes ==
    /\ call.fn = "entries"
    /\ \E r \in Resolution :
        call' = [fn |-> "with_max_res", args |-> <<r>>, xs |-> call.xs,
                 ret |-> with_max_res(r, call.xs)]
    /\ UNCHANGED <<compactor_vars, time, parts>>

NextReduce == ReduceTwice \/ ReduceBoth \/ WithMaxRes

SpecReduce == InitReduce /\ [][NextReduce]_vars

\* C39 (coarsening preserves order): two Times a <= b of one resolution,
\* both reduced to a resolution r, have one resolution and a' <= b'; and
\* entries in (date, time) order, compacted to r, are in (date, time) order
\* with no two of the same date and time.
C39_CoarseningKeepsOrder ==
    /\ call.fn = "reduce_both" =>
        /\ resolution(call.a) = resolution(call.b)
        /\ partial_cmp(call.a, call.b) \in {"Less", "Equal"}
    /\ call.fn = "with_max_res" =>
        \A i \in 1..Len(call.ret) : \A j \in (i + 1)..Len(call.ret) :
            LET e == call.ret[i]
                f == call.ret[j]
            IN /\ e[1] <= f[1]
               /\ e[1] = f[1] => partial_cmp(e[2], f[2]) = "Less"

\* 15:07:24.076 and 15:07:29.999 have been reduced to FifteenSecond, and
\* are equal
C39_Witness ==
    /\ call.fn = "reduce_both"
    /\ call.args = <<FifteenSecond>>
    /\ time = FromParts(<<15, 7, 24, 76>>)
    /\ call.other = FromParts(<<15, 7, 29, 999>>)
    /\ call.a = call.b
    /\ second(call.a) = 15

\* C40 (coarsening composes): reduce_to(r1) then reduce_to(r2) gives what
\* reduce_to(r2) then reduce_to(r1) gives: v reduced to the coarsest of r1,
\* r2 and the resolution of v.
C40_CoarseningComposes ==
    call.fn = "reduce_twice" =>
        LET r1 == call.args[1]
            r2 == call.args[2]
            rv == resolution(time)
            lo == IF r1 <= r2 THEN r1 ELSE r2
            coarsest == IF lo <= rv THEN lo ELSE rv
        IN /\ call.x = call.y
           /\ resolution(call.x) = coarsest
           /\ \A b \in Bits : b > trailing_zeros(coarsest) => (b \in call.x <=> b \in time)

\* 15:07:24.076 has been reduced to FiveMinute and Second in both orders:
\* 15:05
C40_Witness ==
    /\ call.fn = "reduce_twice"
    /\ call.args = <<Second, FiveMinute>>
    /\ time = FromParts(<<15, 7, 24, 76>>)
    /\ resolution(call.x) = FiveMinute
    /\ minute(call.x) = 5
    /\ call.y = call.x


(* ---------------------------------------------------------------------- *)
(* Properties of the buffer over the lifetime of a Compactor              *)
(* ---------------------------------------------------------------------- *)

\* the entries of xs of a date after up_to
After(xs, up_to) == SelectSeq(xs, LAMBDA e : e[1] > up_to)

\* the buffer that the apply_policy of this step starts its compactions
\* on: the buffer before the step, with the pushed entry if the step is a
\* push, less what is discarded
Discarded ==
    LET pushed == <<arg_date', reduce_to(arg_time', policy.max_res), <<count + 1>>>>
        xs == IF op' = "push" THEN Append(data, pushed) ELSE data
    IN discard(xs, arg_date' - policy.max_retention)

\* C32 (sanity check of compact): no call ends in the panic of the
\* assertion; in every compact(up_to, r) that a push or an update_date
\* makes, every entry of a date <= up_to has a resolution <= r afterwards,
\* and the entries of a date > up_to are left as they were.
C32_CompactSanity ==
    /\ [](result # "SanityCheck")
    /\ [][applies_policy(data, arg_date') =>
            \A calls \in {compact_calls(Discarded, policy.compaction_rules, arg_date', 1)} :
              \A k \in 1..Len(calls) :
                LET xs == calls[k][1]
                    up_to == calls[k][2]
                    res == calls[k][3]
                    ys == calls[k][4]
                IN /\ \A i \in 1..Len(ys) :
                        ys[i][1] <= up_to => resolution(ys[i][2]) <= res
                   /\ After(ys, up_to) = After(xs, up_to)]_vars

\* a push has compacted the entries of an earlier day and left two entries
\* of a later day at the resolution of the policy
C32_Witness ==
    /\ op = "push" /\ result = "Ok"
    /\ Len(data) >= 3
    /\ resolution(data[1][2]) < policy.max_res
    /\ data[1][1] < data[2][1]
    /\ data[2][1] = data[3][1]
    /\ resolution(data[2][2]) = policy.max_res
    /\ resolution(data[3][2]) = policy.max_res
    /\ Len(data[1][3]) >= 2

\* C33 (clamp to max_res): no stored entry is finer than the max_res of
\* the policy.
C33_ClampedToMaxRes ==
    \A i \in 1..Len(data) : resolution(data[i][2]) <= policy.max_res

\* 13h has been pushed under a policy of max_res AmPm, and is stored as PM
C33_Witness ==
    /\ op = "push" /\ result = "Ok"
    /\ policy.max_res = AmPm
    /\ arg_time = from_hour(13)
    /\ Last(data)[1] = arg_date
    /\ Last(data)[2] = PM

\* C36 (as claimed): the dates of the pushes with result Ok never go
\* back: a push of a date before that of an earlier push with result Ok
\* returns NonMonotonic, also after update_date has emptied the buffer.
C36_NoOutOfOrderInsertion ==
    op = "push" =>
        /\ result = "Ok" => arg_date >= latest
        /\ arg_date < latest => result = "NonMonotonic"


(* ---------------------------------------------------------------------- *)
(* A caller that only pushes                                               *)
(* ---------------------------------------------------------------------- *)

NextPushOnly ==
    \E date \in Dates, t \in Times : Push(date, t, <<count + 1>>)

SpecPushOnly == Init /\ [][NextPushOnly]_vars

\* C38 (never emptied by push): once a push has succeeded the buffer is
\* not empty after any later push, and a push of a date after that of the
\* last entry succeeds and leaves its sample as the last entry, at the time
\* given (clamped to max_res) and merged with nothing.
C38_NeverEmptiedByPush ==
    /\ [](count >= 1 => data # <<>>)
    /\ [][(op' = "push" /\ applies_policy(data, arg_date')) =>
            /\ result' = "Ok"
            /\ Last(data') = <<arg_date', reduce_to(arg_time', policy.max_res), <<count + 1>>>>]_vars

\* the push of the fourth sample, three days after the third, has
\* discarded every entry but its own
C38_Witness ==
    /\ op = "push" /\ result = "Ok" /\ count = 4
    /\ policy.max_retention = 3
    /\ arg_date = 4
    /\ kept = <<<<4, <<4>>>>>>
    /\ data = <<<<4, reduce_to(arg_time, policy.max_res), <<4>>>>>>


(* ---------------------------------------------------------------------- *)
(* A caller that only pushes times at least as fine as max_res             *)
(* ---------------------------------------------------------------------- *)

\* the times pushed: two hours, one in each half of the day, and a time
\* of a minute within the second, 13:30
FineTimes == {from_hour(11), from_hour(13), with_minute(from_hour(13), 30)}

\* every sample carries its number in push order and the time it was
\* pushed at
NextPushFine ==
    \E date \in Dates, t \in FineTimes :
        /\ resolution(t) >= policy.max_res
        /\ Push(date, t, <<<<count + 1, t>>>>)

SpecPushFine == Init /\ [][NextPushFine]_vars

\* the samples of a log of <<date, <<<<number, time>>>>>> that a discard
\* on date today leaves
Retained(log, today) ==
    SelectSeq(log, LAMBDA e : e[1] > today - policy.max_retention)

\* the resolution that the policy gives an entry of this age: max_res,
\* or the coarsest resolution of the compaction rules whose days the age
\* has reached
EntitledRes(age) ==
    SetMin({policy.max_res} \cup
           {policy.compaction_rules[i][2] :
                i \in {j \in 1..Len(policy.compaction_rules) :
                          age >= policy.compaction_rules[j][1]}})

\* the buffer made anew from a log: every sample at the time it was pushed
\* at, reduced to the resolution of its age on date today, the samples of
\* equal date and reduced time merged in log order
RECURSIVE FromScratch(_, _)
FromScratch(log, today) ==
    IF log = <<>> THEN <<>>
    ELSE LET n == Len(log)
             out == FromScratch(SubSeq(log, 1, n - 1), today)
             date == log[n][1]
             t == reduce_to(log[n][2][1][2], EntitledRes(today - date))
             same == {i \in 1..Len(out) : out[i][1] = date /\ out[i][2] = t}
         IN IF same = {}
            THEN Append(out, <<date, t, log[n][2]>>)
            ELSE [out EXCEPT ![SetMin(same)][3] = @ \o log[n][2]]

\* C35 (history independence): with pushes on non-decreasing dates of
\* times at least as fine as max_res, the buffer after each push is the
\* buffer made from scratch from the samples pushed so far: those of a
\* date after today - max_retention, each reduced to the resolution of its
\* age, those of equal date and reduced time merged in push order.
C35_HistoryIndependent ==
    in_order => data = FromScratch(Retained(kept, latest), latest)

\* samples pushed at 11h, 13h and 13:30 of Jan-1 and at 13:30 of Jan-2
\* under the three-level policy: those of Jan-1 are held at AmPm, the two
\* of the afternoon in one entry
C35_Witness ==
    /\ in_order /\ rules = ThreeLevel /\ count = 4 /\ latest = 2
    /\ Len(data) = 3
    /\ data[1] = <<1, AM, <<<<1, from_hour(11)>>>>>>
    /\ data[2] = <<1, PM, <<<<2, from_hour(13)>>, <<3, with_minute(from_hour(13), 30)>>>>>>
    /\ data[3] = <<2, from_hour(13), <<<<4, with_minute(from_hour(13), 30)>>>>>>

\* C37 (head stays uncompacted): with pushes of times at least as fine as
\* max_res, once a push has succeeded the last entry has exactly the
\* resolution max_res and the date of the latest successful push.
C37_HeadUncompacted ==
    /\ (op = "push" /\ result = "Ok") => latest = arg_date
    /\ count >= 1 =>
        /\ data # <<>>
        /\ resolution(Last(data)[2]) = policy.max_res
        /\ Last(data)[1] = latest

\* under the three-level policy the entry of Jan-2 is at AmPm and the head,
\* pushed at 13:30 of Jan-3, is at 13h
C37_Witness ==
    /\ rules = ThreeLevel /\ op = "push" /\ result = "Ok"
    /\ arg_date = 3 /\ arg_time = with_minute(from_hour(13), 30)
    /\ Len(data) = 2
    /\ data[1][1] = 2 /\ resolution(data[1][2]) = AmPm
    /\ data[2][1] = 3 /\ data[2][2] = from_hour(13)

====
